---------------------------- MODULE Spec2Model ----------------------------
(***************************************************************************)
(* Model of the four-paddle Pong simulation core,                          *)
(* src/src/public/GameState.js (class GameState).                          *)
(*                                                                         *)
(* Numbers.  The JavaScript code computes in IEEE doubles; the model       *)
(* computes in integers: lengths in pixels, velocities and speeds in       *)
(* pixels per second, deltaTime in milliseconds, Math.random() and hitPos  *)
(* in thousandths, angles in milliradians, sines and cosines in            *)
(* thousandths.  Every product with a fractional factor is rounded toward  *)
(* minus infinity (\div).                                                  *)
(*                                                                         *)
(* An object of the class is the record built by This from the variables;  *)
(* every method is an operator from such a record (and the method's        *)
(* arguments) to the record after the call.  Math.random() is an extra     *)
(* argument "rnd" of the methods that reach createInitialBall.             *)
(***************************************************************************)
EXTENDS Integers, Sequences, FiniteSets, TLC

VARIABLES
  ball,                   \* this.ball
  paddles,                \* this.paddles  (left, right, top, bottom)
  gameConfig,             \* this.gameConfig (width, height, isRunning)
  score,                  \* this.score
  lives,                  \* this.lives
  gameOver,               \* this.gameOver
  finalScore,             \* this.finalScore
  reserveTeamUsed,        \* this.reserveTeamUsed
  showReserveTeamOption,  \* this.showReserveTeamOption
  activations,            \* history: activateReserveTeam calls since construction / reset
  last,                   \* history: the last call and the flags it found
  classic,                \* the GameState object of src/GameState.js (single paddle)
  legacy,                 \* the GameState object of src/pong-game/public/GameState.js
  game,                   \* the Game object of src/src/public/game.js and its frame clock
  inputHandler            \* the InputHandler object of src/src/public/InputHandler.js

vars == <<ball, paddles, gameConfig, score, lives, gameOver, finalScore,
          reserveTeamUsed, showReserveTeamOption, activations, last,
          classic, legacy, game, inputHandler>>

\* the value of a variable whose object a specification does not construct
Absent == "absent"

\* the state of the match without the history variables
matchState ==
  <<ball, paddles, gameConfig, score, lives, gameOver, finalScore,
    reserveTeamUsed, showReserveTeamOption>>

\* the objects next to the four-paddle GameState
others == <<classic, legacy, game, inputHandler>>

-----------------------------------------------------------------------------
(* Bounds of the exploration *)

MaxScore == 20          \* update is explored while score < MaxScore
MaxLivesBelow == 1      \* update is explored while lives > -MaxLivesBelow
MaxActivations == 1     \* activateReserveTeam is explored this many times per match

\* deltaTime values passed to update, in milliseconds
DeltaTimes == {1250, 2000}

\* values returned by Math.random(), in thousandths (Math.random() < 1)
RandomValues == {0, 500}

\* the values of one axis of the input state
AxisValues == {-1, 0, 1}

\* the input states: both axes, one axis only, or the empty object
InputStates ==
  [vertical : AxisValues, horizontal : AxisValues]
    \cup [vertical : AxisValues] \cup [horizontal : AxisValues]
    \cup {[f \in {} |-> 0]}

-----------------------------------------------------------------------------
(* Arithmetic *)

\* the value of a statement sequence: the element of a one-element set,
\* whose binding holds each intermediate object as a value
Only(S) == CHOOSE x \in S : TRUE

Abs(n) == IF n < 0 THEN -n ELSE n

Min(a, b) == IF a <= b THEN a ELSE b

\* v * deltaTime, deltaTime in milliseconds
Scaled(v, deltaTime) == (v * deltaTime) \div 1000

\* Math.sqrt: the integer square root, by bisection on lo..hi
RECURSIVE SqrtBetween(_, _, _)
SqrtBetween(n, lo, hi) ==
  IF lo >= hi THEN lo
  ELSE LET mid == (lo + hi + 1) \div 2
       IN  IF mid * mid <= n THEN SqrtBetween(n, mid, hi)
                             ELSE SqrtBetween(n, lo, mid - 1)

Sqrt(n) == SqrtBetween(n, 0, 4096)

\* Math.sin of an angle in milliradians, in thousandths: a - a^3/6
Sin(a) == a - (((a * a) \div 1000) * a) \div 6000

\* Math.cos of an angle in milliradians, in thousandths: 1 - a^2/2 + a^4/24
Cos(a) == 1000 - (a * a) \div 2000
               + (((a * a) \div 1000) * ((a * a) \div 1000)) \div 24000

\* Math.PI / 3 and Math.PI / 6 in milliradians
PiThird == 1047
PiSixth == 524


-----------------------------------------------------------------------------
(* The object *)

This ==
  [ ball |-> ball, paddles |-> paddles, gameConfig |-> gameConfig,
    score |-> score, lives |-> lives, gameOver |-> gameOver,
    finalScore |-> finalScore, reserveTeamUsed |-> reserveTeamUsed,
    showReserveTeamOption |-> showReserveTeamOption ]

\* createInitialBall(): rnd is the value of Math.random(), in thousandths
createInitialBall(this, rnd) ==
  LET speed == 300
      angle == Scaled(rnd, PiThird) - PiSixth
  IN  [ x |-> this.gameConfig.width \div 2,
        y |-> this.gameConfig.height \div 2,
        velocityX |-> Scaled(Cos(angle), speed),
        velocityY |-> Scaled(Sin(angle), speed),
        radius |-> 10,
        speed |-> speed,
        baseSpeed |-> speed,
        maxSpeed |-> 700 ]

\* createInitialPaddles()
createInitialPaddles(this) ==
  LET verticalPaddleWidth == 15
      verticalPaddleHeight == 100
      horizontalPaddleWidth == 100
      horizontalPaddleHeight == 15
      speed == 400
  IN  [ left |->
          [ x |-> 20,
            y |-> (this.gameConfig.height - verticalPaddleHeight) \div 2,
            width |-> verticalPaddleWidth, height |-> verticalPaddleHeight,
            speed |-> speed, velocityY |-> 0 ],
        right |->
          [ x |-> this.gameConfig.width - verticalPaddleWidth - 20,
            y |-> (this.gameConfig.height - verticalPaddleHeight) \div 2,
            width |-> verticalPaddleWidth, height |-> verticalPaddleHeight,
            speed |-> speed, velocityY |-> 0 ],
        top |->
          [ x |-> (this.gameConfig.width - horizontalPaddleWidth) \div 2,
            y |-> 20,
            width |-> horizontalPaddleWidth, height |-> horizontalPaddleHeight,
            speed |-> speed, velocityX |-> 0 ],
        bottom |->
          [ x |-> (this.gameConfig.width - horizontalPaddleWidth) \div 2,
            y |-> this.gameConfig.height - horizontalPaddleHeight - 20,
            width |-> horizontalPaddleWidth, height |-> horizontalPaddleHeight,
            speed |-> speed, velocityX |-> 0 ] ]

\* constructor()
constructor(rnd) ==
  LET config == [ gameConfig |-> [width |-> 800, height |-> 600, isRunning |-> FALSE] ]
  IN  [ ball |-> createInitialBall(config, rnd),
        paddles |-> createInitialPaddles(config),
        gameConfig |-> config.gameConfig,
        score |-> 0,
        lives |-> 3,
        gameOver |-> FALSE,
        finalScore |-> 0,
        reserveTeamUsed |-> FALSE,
        showReserveTeamOption |-> FALSE ]

-----------------------------------------------------------------------------
(* update and its steps *)

\* moveVerticalPaddle without the lower-edge constraint
moveVerticalPaddle_NoBottomClamp(paddle, config, deltaTime, inputState) ==
  LET velocityY == IF "vertical" \in DOMAIN inputState
                   THEN inputState.vertical * paddle.speed ELSE 0
      moved == paddle.y + Scaled(velocityY, deltaTime)
      low == IF moved < 0 THEN 0 ELSE moved
  IN  [paddle EXCEPT !.velocityY = velocityY, !.y = low]

\* a vertical paddle with inertia: the input is added to the velocity the
\* paddle had
moveVerticalPaddle_Inertial(paddle, config, deltaTime, inputState) ==
  LET velocityY == paddle.velocityY
                     + (IF "vertical" \in DOMAIN inputState
                        THEN inputState.vertical * paddle.speed ELSE 0)
      moved == paddle.y + Scaled(velocityY, deltaTime)
      low == IF moved < 0 THEN 0 ELSE moved
      y == IF low + paddle.height > config.height
           THEN config.height - paddle.height ELSE low
  IN  [paddle EXCEPT !.velocityY = velocityY, !.y = y]

\* one vertical paddle (left, right) in updatePaddles: velocity from the
\* input, position, boundary constraints
moveVerticalPaddle(paddle, config, deltaTime, inputState) ==
  LET velocityY == IF "vertical" \in DOMAIN inputState
                   THEN inputState.vertical * paddle.speed ELSE 0
      moved == paddle.y + Scaled(velocityY, deltaTime)
      low == IF moved < 0 THEN 0 ELSE moved
      y == IF low + paddle.height > config.height
           THEN config.height - paddle.height ELSE low
  IN  [paddle EXCEPT !.velocityY = velocityY, !.y = y]

\* a horizontal paddle moved like a vertical one: along y
moveHorizontalPaddle_MovesY(paddle, config, deltaTime, inputState) ==
  LET velocityX == IF "horizontal" \in DOMAIN inputState
                   THEN inputState.horizontal * paddle.speed ELSE 0
      moved == paddle.y + Scaled(velocityX, deltaTime)
      low == IF moved < 0 THEN 0 ELSE moved
      y == IF low + paddle.height > config.height
           THEN config.height - paddle.height ELSE low
  IN  [paddle EXCEPT !.velocityX = velocityX, !.y = y]

\* one horizontal paddle (top, bottom) in updatePaddles
moveHorizontalPaddle(paddle, config, deltaTime, inputState) ==
  LET velocityX == IF "horizontal" \in DOMAIN inputState
                   THEN inputState.horizontal * paddle.speed ELSE 0
      moved == paddle.x + Scaled(velocityX, deltaTime)
      low == IF moved < 0 THEN 0 ELSE moved
      x == IF low + paddle.width > config.width
           THEN config.width - paddle.width ELSE low
  IN  [paddle EXCEPT !.velocityX = velocityX, !.x = x]

\* updatePaddles in which the keys reach the left and the top paddle only
updatePaddles_OneOfEachPair(this, deltaTime, inputState) ==
  [this EXCEPT !.paddles =
    [ left |-> moveVerticalPaddle(this.paddles.left, this.gameConfig, deltaTime, inputState),
      right |-> moveVerticalPaddle(this.paddles.right, this.gameConfig, deltaTime,
                                   [f \in {} |-> 0]),
      top |-> moveHorizontalPaddle(this.paddles.top, this.gameConfig, deltaTime, inputState),
      bottom |-> moveHorizontalPaddle(this.paddles.bottom, this.gameConfig, deltaTime,
                                      [f \in {} |-> 0]) ]]

\* updatePaddles(deltaTime, inputState)
updatePaddles(this, deltaTime, inputState) ==
  [this EXCEPT !.paddles =
    [ left |-> moveVerticalPaddle(this.paddles.left, this.gameConfig, deltaTime, inputState),
      right |-> moveVerticalPaddle(this.paddles.right, this.gameConfig, deltaTime, inputState),
      top |-> moveHorizontalPaddle(this.paddles.top, this.gameConfig, deltaTime, inputState),
      bottom |-> moveHorizontalPaddle(this.paddles.bottom, this.gameConfig, deltaTime, inputState) ]]

\* updateBall(deltaTime)
updateBall(this, deltaTime) ==
  [this EXCEPT !.ball.x = @ + Scaled(this.ball.velocityX, deltaTime),
               !.ball.y = @ + Scaled(this.ball.velocityY, deltaTime)]

\* the overlap test of checkSinglePaddleCollision
overlaps(paddle, ballLeft, ballRight, ballTop, ballBottom) ==
  /\ ballRight >= paddle.x
  /\ ballLeft <= paddle.x + paddle.width
  /\ ballBottom >= paddle.y
  /\ ballTop <= paddle.y + paddle.height

\* hitPos of checkSinglePaddleCollision, in thousandths
hitPosition(offset, length) == (offset * 1000) \div length

\* bounceAngle of checkSinglePaddleCollision, in milliradians
bounceAngleOf(hitPos) == Scaled(hitPos - 500, PiThird)

\* the bounce block without the Math.min against maxSpeed
bounce_NoCap(this, newVelocityX, newVelocityY) ==
  LET newSpeed == (this.ball.speed * 107) \div 100
      magnitude == Sqrt(newVelocityX * newVelocityX + newVelocityY * newVelocityY)
  IN  [this EXCEPT !.ball.speed = newSpeed,
                   !.ball.velocityX = (newVelocityX * newSpeed) \div magnitude,
                   !.ball.velocityY = (newVelocityY * newSpeed) \div magnitude,
                   !.score = @ + 10]

\* the bounce block with the legacy increment of one point per catch
bounce_ScoresOne(this, newVelocityX, newVelocityY) ==
  LET newSpeed == Min((this.ball.speed * 107) \div 100, this.ball.maxSpeed)
      magnitude == Sqrt(newVelocityX * newVelocityX + newVelocityY * newVelocityY)
  IN  [this EXCEPT !.ball.speed = newSpeed,
                   !.ball.velocityX = (newVelocityX * newSpeed) \div magnitude,
                   !.ball.velocityY = (newVelocityY * newSpeed) \div magnitude,
                   !.score = @ + 1]

\* the "if (shouldBounce)" block: speed escalation, velocity, score
bounce(this, newVelocityX, newVelocityY) ==
  LET newSpeed == Min((this.ball.speed * 107) \div 100, this.ball.maxSpeed)
      magnitude == Sqrt(newVelocityX * newVelocityX + newVelocityY * newVelocityY)
  IN  [this EXCEPT !.ball.speed = newSpeed,
                   !.ball.velocityX = (newVelocityX * newSpeed) \div magnitude,
                   !.ball.velocityY = (newVelocityY * newSpeed) \div magnitude,
                   !.score = @ + 10]

\* checkSinglePaddleCollision that bounces every overlapping ball, whichever
\* way it flies
checkSinglePaddleCollision_AnyDirection(this, paddleName, ballLeft, ballRight, ballTop, ballBottom) ==
  LET paddle == this.paddles[paddleName]
      b == this.ball
      angleV == bounceAngleOf(hitPosition(b.y - paddle.y, paddle.height))
      angleH == bounceAngleOf(hitPosition(b.x - paddle.x, paddle.width))
  IN  IF ~ overlaps(paddle, ballLeft, ballRight, ballTop, ballBottom) THEN this
      ELSE IF paddleName = "left"
        THEN bounce([this EXCEPT !.ball.x = paddle.x + paddle.width + b.radius + 1],
                    Abs(Scaled(Cos(angleV), b.speed)), Scaled(Sin(angleV), b.speed))
      ELSE IF paddleName = "right"
        THEN bounce([this EXCEPT !.ball.x = paddle.x - b.radius - 1],
                    -Abs(Scaled(Cos(angleV), b.speed)), Scaled(Sin(angleV), b.speed))
      ELSE IF paddleName = "top"
        THEN bounce([this EXCEPT !.ball.y = paddle.y + paddle.height + b.radius + 1],
                    Scaled(Sin(angleH), b.speed), Abs(Scaled(Cos(angleH), b.speed)))
      ELSE bounce([this EXCEPT !.ball.y = paddle.y - b.radius - 1],
                  Scaled(Sin(angleH), b.speed), -Abs(Scaled(Cos(angleH), b.speed)))

\* checkSinglePaddleCollision(paddleName, ballLeft, ballRight, ballTop, ballBottom)
checkSinglePaddleCollision(this, paddleName, ballLeft, ballRight, ballTop, ballBottom) ==
  LET paddle == this.paddles[paddleName]
      paddleLeft == paddle.x
      paddleRight == paddle.x + paddle.width
      paddleTop == paddle.y
      paddleBottom == paddle.y + paddle.height
      b == this.ball
      angleV == bounceAngleOf(hitPosition(b.y - paddleTop, paddle.height))
      angleH == bounceAngleOf(hitPosition(b.x - paddleLeft, paddle.width))
  IN  IF ~ overlaps(paddle, ballLeft, ballRight, ballTop, ballBottom) THEN this
      ELSE IF paddleName = "left" /\ b.velocityX < 0
        THEN bounce([this EXCEPT !.ball.x = paddleRight + b.radius + 1],
                    Abs(Scaled(Cos(angleV), b.speed)), Scaled(Sin(angleV), b.speed))
      ELSE IF paddleName = "right" /\ b.velocityX > 0
        THEN bounce([this EXCEPT !.ball.x = paddleLeft - b.radius - 1],
                    -Abs(Scaled(Cos(angleV), b.speed)), Scaled(Sin(angleV), b.speed))
      ELSE IF paddleName = "top" /\ b.velocityY < 0
        THEN bounce([this EXCEPT !.ball.y = paddleBottom + b.radius + 1],
                    Scaled(Sin(angleH), b.speed), Abs(Scaled(Cos(angleH), b.speed)))
      ELSE IF paddleName = "bottom" /\ b.velocityY > 0
        THEN bounce([this EXCEPT !.ball.y = paddleTop - b.radius - 1],
                    Scaled(Sin(angleH), b.speed), -Abs(Scaled(Cos(angleH), b.speed)))
      ELSE this

\* checkPaddleCollisions(): the ball's edges are taken once, before the
\* first paddle is looked at
checkPaddleCollisions(this) ==
  LET ballLeft == this.ball.x - this.ball.radius
      ballRight == this.ball.x + this.ball.radius
      ballTop == this.ball.y - this.ball.radius
      ballBottom == this.ball.y + this.ball.radius
      check(s, paddleName) ==
        checkSinglePaddleCollision(s, paddleName, ballLeft, ballRight, ballTop, ballBottom)
  IN  Only({ check(s3, "bottom") :
             s3 \in { check(s2, "top") :
                      s2 \in { check(s1, "right") :
                               s1 \in { check(s0, "left") : s0 \in {this} } } } })

\* shouldBounce of checkSinglePaddleCollision: the paddle is overlapped
\* and the ball moves toward it
shouldBounce(this, paddleName, ballLeft, ballRight, ballTop, ballBottom) ==
  /\ overlaps(this.paddles[paddleName], ballLeft, ballRight, ballTop, ballBottom)
  /\ \/ paddleName = "left" /\ this.ball.velocityX < 0
     \/ paddleName = "right" /\ this.ball.velocityX > 0
     \/ paddleName = "top" /\ this.ball.velocityY < 0
     \/ paddleName = "bottom" /\ this.ball.velocityY > 0

\* the paddles that catch the ball in one checkPaddleCollisions(), in the
\* order of the calls
catchers(this) ==
  LET ballLeft == this.ball.x - this.ball.radius
      ballRight == this.ball.x + this.ball.radius
      ballTop == this.ball.y - this.ball.radius
      ballBottom == this.ball.y + this.ball.radius
      s1 == checkSinglePaddleCollision(this, "left", ballLeft, ballRight, ballTop, ballBottom)
      s2 == checkSinglePaddleCollision(s1, "right", ballLeft, ballRight, ballTop, ballBottom)
      s3 == checkSinglePaddleCollision(s2, "top", ballLeft, ballRight, ballTop, ballBottom)
      one(s, name) == IF shouldBounce(s, name, ballLeft, ballRight, ballTop, ballBottom)
                      THEN <<name>> ELSE <<>>
  IN  one(this, "left") \o one(s1, "right") \o one(s2, "top") \o one(s3, "bottom")

\* resetBall that re-centres the old ball instead of replacing it
resetBall_KeepsSpeed(this, rnd) ==
  LET fresh == createInitialBall(this, rnd)
  IN  [this EXCEPT !.ball.x = fresh.x, !.ball.y = fresh.y,
                   !.ball.velocityX = fresh.velocityX,
                   !.ball.velocityY = fresh.velocityY]

\* resetBall()
resetBall(this, rnd) == [this EXCEPT !.ball = createInitialBall(this, rnd)]

\* the wall test of checkWallCollisions
hitsWall(this) ==
  \/ this.ball.y - this.ball.radius <= 0
  \/ this.ball.y + this.ball.radius >= this.gameConfig.height
  \/ this.ball.x - this.ball.radius <= 0
  \/ this.ball.x + this.ball.radius >= this.gameConfig.width

\* checkWallCollisions that takes the life and leaves the ball where it is
checkWallCollisions_KeepsBall(this, rnd) ==
  IF hitsWall(this)
  THEN [this EXCEPT !.lives = @ - 1]
  ELSE this

\* checkWallCollisions()
checkWallCollisions(this, rnd) ==
  IF hitsWall(this)
  THEN resetBall([this EXCEPT !.lives = @ - 1], rnd)
  ELSE this

\* checkCollisions()
checkCollisions(this, rnd) ==
  Only({ checkWallCollisions(checked, rnd) : checked \in {checkPaddleCollisions(this)} })

\* checkGameOver that offers the reserve without stopping the match
checkGameOver_OfferKeepsRunning(this) ==
  IF this.lives <= 0
  THEN IF ~ this.reserveTeamUsed
       THEN [this EXCEPT !.showReserveTeamOption = TRUE]
       ELSE [this EXCEPT !.gameOver = TRUE,
                         !.gameConfig.isRunning = FALSE,
                         !.finalScore = this.score]
  ELSE this

\* checkGameOver that never ends a match whose reserve team was used
checkGameOver_ReserveNeverEnds(this) ==
  IF this.lives <= 0 /\ ~ this.reserveTeamUsed
  THEN [this EXCEPT !.showReserveTeamOption = TRUE,
                    !.gameConfig.isRunning = FALSE]
  ELSE this

\* checkGameOver()
checkGameOver(this) ==
  IF this.lives <= 0
  THEN IF ~ this.reserveTeamUsed
       THEN [this EXCEPT !.showReserveTeamOption = TRUE,
                         !.gameConfig.isRunning = FALSE]
       ELSE [this EXCEPT !.gameOver = TRUE,
                         !.gameConfig.isRunning = FALSE,
                         !.finalScore = this.score]
  ELSE this

\* update that tests the running flag only
update_IgnoresGameOver(this, deltaTime, inputState, rnd) ==
  IF ~ this.gameConfig.isRunning
  THEN this
  ELSE checkGameOver(
         checkCollisions(
           updateBall(updatePaddles(this, deltaTime, inputState), deltaTime),
           rnd))

\* update(deltaTime, inputState)
update(this, deltaTime, inputState, rnd) ==
  IF ~ this.gameConfig.isRunning \/ this.gameOver
  THEN this
  ELSE Only({ checkGameOver(collided) :
              collided \in { checkCollisions(moved, rnd) :
                moved \in { updateBall(placed, deltaTime) :
                  placed \in { updatePaddles(this, deltaTime, inputState) } } } })

\* what happens inside one update: the number of paddle catches, whether
\* the moved ball is at a wall (reached) and whether checkWallCollisions,
\* which runs after the paddle checks, finds it there (wall)
updateEvents(this, deltaTime, inputState) ==
  IF ~ this.gameConfig.isRunning \/ this.gameOver
  THEN [catches |-> 0, reached |-> FALSE, wall |-> FALSE]
  ELSE Only({ [ catches |-> Len(catchers(moved)),
                reached |-> hitsWall(moved),
                wall |-> hitsWall(checkPaddleCollisions(moved)) ] :
              moved \in { updateBall(placed, deltaTime) :
                placed \in { updatePaddles(this, deltaTime, inputState) } } })

-----------------------------------------------------------------------------
(* The other methods *)

\* reset that keeps the paddles of the old match
reset_KeepsPaddles(this, rnd) ==
  [this EXCEPT !.ball = createInitialBall(this, rnd),
               !.score = 0,
               !.lives = 3,
               !.gameOver = FALSE,
               !.finalScore = 0,
               !.reserveTeamUsed = FALSE,
               !.showReserveTeamOption = FALSE,
               !.gameConfig.isRunning = FALSE]

\* reset()
reset(this, rnd) ==
  [this EXCEPT !.ball = createInitialBall(this, rnd),
               !.paddles = createInitialPaddles(this),
               !.score = 0,
               !.lives = 3,
               !.gameOver = FALSE,
               !.finalScore = 0,
               !.reserveTeamUsed = FALSE,
               !.showReserveTeamOption = FALSE,
               !.gameConfig.isRunning = FALSE]

\* start that also revives a finished match
start_ClearsGameOver(this) ==
  [this EXCEPT !.gameConfig.isRunning = TRUE, !.gameOver = FALSE]

\* start()
start(this) == [this EXCEPT !.gameConfig.isRunning = TRUE]

\* pause that also stops the paddles
pause_StopsPaddles(this) ==
  [this EXCEPT !.gameConfig.isRunning = FALSE,
               !.paddles.left.velocityY = 0,
               !.paddles.right.velocityY = 0,
               !.paddles.top.velocityX = 0,
               !.paddles.bottom.velocityX = 0]

\* pause()
pause(this) == [this EXCEPT !.gameConfig.isRunning = FALSE]

\* x * 1.6, x * 0.5 and x * 1.3 of activateReserveTeam
TimesBallFactor(x) == (x * 16) \div 10
TimesSizeFactor(x) == (x * 5) \div 10
TimesPaddleSpeedFactor(x) == (x * 13) \div 10

\* activateReserveTeam that halves the side paddles only
activateReserveTeam_SidesOnly(this, rnd) ==
  LET faster == [this EXCEPT !.reserveTeamUsed = TRUE,
                             !.showReserveTeamOption = FALSE,
                             !.lives = 1,
                             !.ball.speed = TimesBallFactor(@),
                             !.ball.maxSpeed = TimesBallFactor(@),
                             !.paddles.left.height = TimesSizeFactor(@),
                             !.paddles.right.height = TimesSizeFactor(@),
                             !.paddles.left.speed = TimesPaddleSpeedFactor(@),
                             !.paddles.right.speed = TimesPaddleSpeedFactor(@),
                             !.paddles.top.speed = TimesPaddleSpeedFactor(@),
                             !.paddles.bottom.speed = TimesPaddleSpeedFactor(@)]
  IN  [resetBall(faster, rnd) EXCEPT !.gameConfig.isRunning = TRUE]

\* activateReserveTeam that does not record that the reserve was used
activateReserveTeam_NotRecorded(this, rnd) ==
  LET faster == [this EXCEPT !.showReserveTeamOption = FALSE,
                             !.lives = 1,
                             !.ball.speed = TimesBallFactor(@),
                             !.ball.maxSpeed = TimesBallFactor(@),
                             !.paddles.left.height = TimesSizeFactor(@),
                             !.paddles.right.height = TimesSizeFactor(@),
                             !.paddles.top.width = TimesSizeFactor(@),
                             !.paddles.bottom.width = TimesSizeFactor(@),
                             !.paddles.left.speed = TimesPaddleSpeedFactor(@),
                             !.paddles.right.speed = TimesPaddleSpeedFactor(@),
                             !.paddles.top.speed = TimesPaddleSpeedFactor(@),
                             !.paddles.bottom.speed = TimesPaddleSpeedFactor(@)]
  IN  [resetBall(faster, rnd) EXCEPT !.gameConfig.isRunning = TRUE]

\* activateReserveTeam()
activateReserveTeam(this, rnd) ==
  LET faster == [this EXCEPT !.reserveTeamUsed = TRUE,
                             !.showReserveTeamOption = FALSE,
                             !.lives = 1,
                             !.ball.speed = TimesBallFactor(@),
                             !.ball.maxSpeed = TimesBallFactor(@),
                             !.paddles.left.height = TimesSizeFactor(@),
                             !.paddles.right.height = TimesSizeFactor(@),
                             !.paddles.top.width = TimesSizeFactor(@),
                             !.paddles.bottom.width = TimesSizeFactor(@),
                             !.paddles.left.speed = TimesPaddleSpeedFactor(@),
                             !.paddles.right.speed = TimesPaddleSpeedFactor(@),
                             !.paddles.top.speed = TimesPaddleSpeedFactor(@),
                             !.paddles.bottom.speed = TimesPaddleSpeedFactor(@)]
  IN  [resetBall(faster, rnd) EXCEPT !.gameConfig.isRunning = TRUE]

\* declineReserveTeam that does not record the final score
declineReserveTeam_NoFinalScore(this) ==
  [this EXCEPT !.showReserveTeamOption = FALSE,
               !.gameOver = TRUE]

\* declineReserveTeam()
declineReserveTeam(this) ==
  [this EXCEPT !.showReserveTeamOption = FALSE,
               !.gameOver = TRUE,
               !.finalScore = this.score]

-----------------------------------------------------------------------------
(* Snapshots *)

\* getState() whose finalScore is the current score
getState_FinalScoreIsScore(this) ==
  [ ball |-> this.ball,
    paddles |-> [ left |-> this.paddles.left, right |-> this.paddles.right,
                  top |-> this.paddles.top, bottom |-> this.paddles.bottom ],
    gameConfig |-> this.gameConfig,
    score |-> this.score,
    lives |-> this.lives,
    gameOver |-> this.gameOver,
    finalScore |-> this.score ]

\* getState(): copies of ball, paddles and gameConfig, and score, lives,
\* gameOver, finalScore
getState(this) ==
  [ ball |-> this.ball,
    paddles |-> [ left |-> this.paddles.left, right |-> this.paddles.right,
                  top |-> this.paddles.top, bottom |-> this.paddles.bottom ],
    gameConfig |-> this.gameConfig,
    score |-> this.score,
    lives |-> this.lives,
    gameOver |-> this.gameOver,
    finalScore |-> this.finalScore ]

\* setState that tests every key for truthiness, so that 0 and false are
\* taken for absent
setState_Truthy(this, state) ==
  LET has(key) == key \in DOMAIN state
      paddle(name) == IF has("paddles") /\ name \in DOMAIN state.paddles
                      THEN state.paddles[name] ELSE this.paddles[name]
  IN  [ ball |-> IF has("ball") THEN state.ball ELSE this.ball,
        paddles |-> [ left |-> paddle("left"), right |-> paddle("right"),
                      top |-> paddle("top"), bottom |-> paddle("bottom") ],
        gameConfig |-> IF has("gameConfig") THEN state.gameConfig ELSE this.gameConfig,
        score |-> IF has("score") /\ state.score # 0 THEN state.score ELSE this.score,
        lives |-> IF has("lives") /\ state.lives # 0 THEN state.lives ELSE this.lives,
        gameOver |-> IF has("gameOver") /\ state.gameOver THEN state.gameOver ELSE this.gameOver,
        finalScore |-> IF has("finalScore") /\ state.finalScore # 0
                       THEN state.finalScore ELSE this.finalScore,
        reserveTeamUsed |-> this.reserveTeamUsed,
        showReserveTeamOption |-> this.showReserveTeamOption ]

\* setState(state): state is a function on the keys it carries; a key that
\* is absent reads as undefined.  ball, paddles (and each paddle in it) and
\* gameConfig are objects and so truthy when present.
setState(this, state) ==
  LET has(key) == key \in DOMAIN state
      paddle(name) == IF has("paddles") /\ name \in DOMAIN state.paddles
                      THEN state.paddles[name] ELSE this.paddles[name]
  IN  [ ball |-> IF has("ball") THEN state.ball ELSE this.ball,
        paddles |-> [ left |-> paddle("left"), right |-> paddle("right"),
                      top |-> paddle("top"), bottom |-> paddle("bottom") ],
        gameConfig |-> IF has("gameConfig") THEN state.gameConfig ELSE this.gameConfig,
        score |-> IF has("score") THEN state.score ELSE this.score,
        lives |-> IF has("lives") THEN state.lives ELSE this.lives,
        gameOver |-> IF has("gameOver") THEN state.gameOver ELSE this.gameOver,
        finalScore |-> IF has("finalScore") THEN state.finalScore ELSE this.finalScore,
        reserveTeamUsed |-> this.reserveTeamUsed,
        showReserveTeamOption |-> this.showReserveTeamOption ]

-----------------------------------------------------------------------------
(* The state machine: one action per public method *)

\* what a call found: its name and the flags and lives before it; for an
\* update the paddle catches and the wall hit of the step, for setState
\* the snapshot it was given; streak counts the paddle catches since the
\* ball object was created or replaced
Call(name) ==
  [ op |-> name,
    isRunning |-> gameConfig.isRunning,
    gameOver |-> gameOver,
    offered |-> showReserveTeamOption,
    used |-> reserveTeamUsed,
    lives |-> lives,
    catches |-> 0,
    reached |-> FALSE,
    wall |-> FALSE,
    streak |-> IF name \in {"reset", "activateReserveTeam"} THEN 0 ELSE last.streak,
    arg |-> <<>> ]

\* the record of an update call
UpdateCall(deltaTime, inputState) ==
  LET events == updateEvents(This, deltaTime, inputState)
  IN  [Call("update") EXCEPT !.catches = events.catches,
                              !.reached = events.reached,
                              !.wall = events.wall,
                              !.streak = IF events.wall THEN 0 ELSE @ + events.catches]

\* the variables take the fields of the object after the call
Becomes(this) ==
  /\ ball' = this.ball
  /\ paddles' = this.paddles
  /\ gameConfig' = this.gameConfig
  /\ score' = this.score
  /\ lives' = this.lives
  /\ gameOver' = this.gameOver
  /\ finalScore' = this.finalScore
  /\ reserveTeamUsed' = this.reserveTeamUsed
  /\ showReserveTeamOption' = this.showReserveTeamOption

Init ==
  /\ \E rnd \in RandomValues :
       LET this == constructor(rnd)
       IN  /\ ball = this.ball
           /\ paddles = this.paddles
           /\ gameConfig = this.gameConfig
           /\ score = this.score
           /\ lives = this.lives
           /\ gameOver = this.gameOver
           /\ finalScore = this.finalScore
           /\ reserveTeamUsed = this.reserveTeamUsed
           /\ showReserveTeamOption = this.showReserveTeamOption
  /\ activations = 0
  /\ last = [ op |-> "constructor", isRunning |-> FALSE, gameOver |-> FALSE,
              offered |-> FALSE, used |-> FALSE, lives |-> 3,
              catches |-> 0, reached |-> FALSE, wall |-> FALSE, streak |-> 0,
              arg |-> <<>> ]
  /\ classic = Absent
  /\ legacy = Absent
  /\ game = Absent
  /\ inputHandler = Absent

Update ==
  /\ score < MaxScore
  /\ lives > - MaxLivesBelow
  /\ \E deltaTime \in DeltaTimes, inputState \in InputStates, rnd \in RandomValues :
       /\ Becomes(update(This, deltaTime, inputState, rnd))
       /\ last' = UpdateCall(deltaTime, inputState)
  /\ UNCHANGED activations
  /\ UNCHANGED others

Start ==
  /\ Becomes(start(This))
  /\ last' = Call("start")
  /\ UNCHANGED activations
  /\ UNCHANGED others

Pause ==
  /\ Becomes(pause(This))
  /\ last' = Call("pause")
  /\ UNCHANGED activations
  /\ UNCHANGED others

ActivateReserveTeam ==
  /\ activations < MaxActivations
  /\ \E rnd \in RandomValues : Becomes(activateReserveTeam(This, rnd))
  /\ last' = Call("activateReserveTeam")
  /\ activations' = activations + 1
  /\ UNCHANGED others

DeclineReserveTeam ==
  /\ Becomes(declineReserveTeam(This))
  /\ last' = Call("declineReserveTeam")
  /\ UNCHANGED activations
  /\ UNCHANGED others

Reset ==
  /\ \E rnd \in RandomValues : Becomes(reset(This, rnd))
  /\ last' = Call("reset")
  /\ activations' = 0
  /\ UNCHANGED others

Next ==
  \/ Update
  \/ Start
  \/ Pause
  \/ ActivateReserveTeam
  \/ DeclineReserveTeam
  \/ Reset

Spec == Init /\ [][Next]_vars

-----------------------------------------------------------------------------
(* The state machine with snapshots: getState and setState join the calls *)

\* setState({})
EmptySnapshot == [key \in {} |-> 0]

\* the values a truthiness test would take for absent
FalsySnapshot == [score |-> 0, lives |-> 0, gameOver |-> FALSE, finalScore |-> 0]

\* only the configuration, with the match running
RunningSnapshot == [gameConfig |-> [width |-> 800, height |-> 600, isRunning |-> TRUE]]

\* a served ball 15 px right of the centre on its way to the right paddle
TouchSnapshot ==
  [ ball |-> [ x |-> 415, y |-> 300, velocityX |-> 300, velocityY |-> 0,
               radius |-> 10, speed |-> 300, baseSpeed |-> 300, maxSpeed |-> 700 ] ]

\* one catch into a match: the ball comes back from the right paddle
\* towards the lower left corner, the side paddles are at their lowest
CornerSnapshot ==
  [ ball |-> [ x |-> 400, y |-> 437, velocityX |-> -296, velocityY |-> 124,
               radius |-> 10, speed |-> 321, baseSpeed |-> 300, maxSpeed |-> 700 ],
    paddles |-> [ left |-> [ x |-> 20, y |-> 500, width |-> 15, height |-> 100,
                             speed |-> 400, velocityY |-> 0 ],
                  right |-> [ x |-> 780, y |-> 500, width |-> 15, height |-> 100,
                              speed |-> 400, velocityY |-> 0 ] ],
    score |-> 10 ]

\* one catch into a match: the ball comes back from the right paddle
\* towards the upper left corner, where the left paddle (at its highest)
\* and the top paddle (at its leftmost) cross
CrossSnapshot ==
  [ ball |-> [ x |-> 415, y |-> 183, velocityX |-> -300, velocityY |-> -114,
               radius |-> 10, speed |-> 321, baseSpeed |-> 300, maxSpeed |-> 700 ],
    paddles |-> [ left |-> [ x |-> 20, y |-> 0, width |-> 15, height |-> 100,
                             speed |-> 400, velocityY |-> 0 ],
                  right |-> [ x |-> 765, y |-> 0, width |-> 15, height |-> 100,
                              speed |-> 400, velocityY |-> 0 ],
                  top |-> [ x |-> 0, y |-> 20, width |-> 100, height |-> 15,
                            speed |-> 400, velocityX |-> 0 ],
                  bottom |-> [ x |-> 0, y |-> 565, width |-> 100, height |-> 15,
                               speed |-> 400, velocityX |-> 0 ] ],
    score |-> 10 ]

\* the snapshots handed to setState
Snapshots ==
  << EmptySnapshot, FalsySnapshot, RunningSnapshot, TouchSnapshot, CornerSnapshot,
     CrossSnapshot >>

\* the input states of the updates between snapshots
SnapshotInputStates == {[f \in {} |-> 0], [vertical |-> 1, horizontal |-> 1]}

\* update(deltaTime, inputState) between snapshots
UpdateSnap ==
  /\ score < MaxScore
  /\ lives > - MaxLivesBelow
  /\ \E deltaTime \in DeltaTimes, inputState \in SnapshotInputStates, rnd \in RandomValues :
       /\ Becomes(update(This, deltaTime, inputState, rnd))
       /\ last' = UpdateCall(deltaTime, inputState)
  /\ UNCHANGED activations
  /\ UNCHANGED others

\* setState(snapshot)
SetState ==
  /\ \E i \in 1..Len(Snapshots) :
       /\ Becomes(setState(This, Snapshots[i]))
       /\ last' = [Call("setState") EXCEPT
                    !.arg = Snapshots[i],
                    !.streak = IF "ball" \in DOMAIN Snapshots[i] THEN 0 ELSE @]
  /\ UNCHANGED activations
  /\ UNCHANGED others

\* setState(getState()) on the same object
RoundTrip ==
  /\ Becomes(setState(This, getState(This)))
  /\ last' = [Call("roundTrip") EXCEPT !.streak = 0]
  /\ UNCHANGED activations
  /\ UNCHANGED others

\* the match goes on in a fresh object that is given the snapshot:
\* other = new GameState(); other.setState(this.getState())
Restore ==
  /\ \E rnd \in RandomValues : Becomes(setState(constructor(rnd), getState(This)))
  /\ last' = [Call("restore") EXCEPT !.streak = 0]
  /\ UNCHANGED activations
  /\ UNCHANGED others

NextSnap ==
  \/ UpdateSnap
  \/ Start
  \/ Pause
  \/ ActivateReserveTeam
  \/ DeclineReserveTeam
  \/ Reset
  \/ SetState
  \/ RoundTrip
  \/ Restore

SpecSnap == Init /\ [][NextSnap]_vars

-----------------------------------------------------------------------------
(* The state machine at frame rate: a rally *)

MaxPlayScore == 150     \* a rally is explored while score < MaxPlayScore

\* the frame times of a rally, in milliseconds
PlayDeltaTimes == {40}

\* Math.random() = 0.5 serves the ball at angle 0; in thousandths, with
\* the rounding of PiThird and PiSixth, that is 501
PlayRandomValues == {501}

\* the input state of a rally: no key is pressed
PlayInputStates == {[f \in {} |-> 0]}

InitPlay ==
  /\ \E rnd \in PlayRandomValues :
       LET this == constructor(rnd)
       IN  /\ ball = this.ball
           /\ paddles = this.paddles
           /\ gameConfig = this.gameConfig
           /\ score = this.score
           /\ lives = this.lives
           /\ gameOver = this.gameOver
           /\ finalScore = this.finalScore
           /\ reserveTeamUsed = this.reserveTeamUsed
           /\ showReserveTeamOption = this.showReserveTeamOption
  /\ activations = 0
  /\ last = [ op |-> "constructor", isRunning |-> FALSE, gameOver |-> FALSE,
              offered |-> FALSE, used |-> FALSE, lives |-> 3,
              catches |-> 0, reached |-> FALSE, wall |-> FALSE, streak |-> 0,
              arg |-> <<>> ]
  /\ classic = Absent
  /\ legacy = Absent
  /\ game = Absent
  /\ inputHandler = Absent

\* update(deltaTime, inputState) of one frame
UpdatePlay ==
  /\ score < MaxPlayScore
  /\ lives > - MaxLivesBelow
  /\ \E deltaTime \in PlayDeltaTimes, inputState \in PlayInputStates,
        rnd \in PlayRandomValues :
       /\ Becomes(update(This, deltaTime, inputState, rnd))
       /\ last' = UpdateCall(deltaTime, inputState)
  /\ UNCHANGED activations
  /\ UNCHANGED others

NextPlay ==
  \/ UpdatePlay
  \/ Start
  \/ Pause
  \/ ActivateReserveTeam
  \/ Reset

SpecPlay == InitPlay /\ [][NextPlay]_vars

-----------------------------------------------------------------------------
(* The single-paddle GameState of src/GameState.js.  An object is the     *)
(* record [ball, paddle, gameConfig]; the methods carry the prefix         *)
(* classic_ because the four-paddle class has methods of the same names.   *)

\* createInitialBall()
classic_createInitialBall(this, rnd) ==
  LET speed == 300
      angle == Scaled(rnd, PiThird) - PiSixth
  IN  [ x |-> this.gameConfig.width \div 2,
        y |-> this.gameConfig.height \div 2,
        velocityX |-> Scaled(Cos(angle), speed),
        velocityY |-> Scaled(Sin(angle), speed),
        radius |-> 10,
        speed |-> speed ]

\* createInitialPaddle()
classic_createInitialPaddle(this) ==
  LET paddleWidth == 15
      paddleHeight == 100
  IN  [ x |-> this.gameConfig.width - paddleWidth - 20,
        y |-> (this.gameConfig.height - paddleHeight) \div 2,
        width |-> paddleWidth,
        height |-> paddleHeight,
        speed |-> 400,
        velocityY |-> 0 ]

\* constructor()
classic_constructor(rnd) ==
  LET config == [gameConfig |-> [width |-> 800, height |-> 600, isRunning |-> FALSE]]
  IN  [ gameConfig |-> config.gameConfig,
        ball |-> classic_createInitialBall(config, rnd),
        paddle |-> classic_createInitialPaddle(config) ]

\* inputState.up / inputState.down read as a condition
pressed(inputState, key) == key \in DOMAIN inputState /\ inputState[key]

\* updatePaddle(deltaTime, inputState)
classic_updatePaddle(this, deltaTime, inputState) ==
  LET paddle == this.paddle
      up == IF pressed(inputState, "up") THEN - paddle.speed ELSE 0
      velocityY == IF pressed(inputState, "down") THEN paddle.speed ELSE up
      moved == paddle.y + Scaled(velocityY, deltaTime)
      low == IF moved < 0 THEN 0 ELSE moved
      y == IF low + paddle.height > this.gameConfig.height
           THEN this.gameConfig.height - paddle.height ELSE low
  IN  [this EXCEPT !.paddle.velocityY = velocityY, !.paddle.y = y]

\* updateBall(deltaTime)
classic_updateBall(this, deltaTime) ==
  [this EXCEPT !.ball.x = @ + Scaled(this.ball.velocityX, deltaTime),
               !.ball.y = @ + Scaled(this.ball.velocityY, deltaTime)]

\* checkWallCollisions that turns the velocity but leaves the ball where it is
classic_checkWallCollisions_NoClamp(this) ==
  LET top == IF this.ball.y - this.ball.radius <= 0
             THEN [this EXCEPT !.ball.velocityY = Abs(@)]
             ELSE this
  IN  IF top.ball.y + top.ball.radius >= top.gameConfig.height
      THEN [top EXCEPT !.ball.velocityY = - Abs(@)]
      ELSE top

\* checkWallCollisions(): top wall, then bottom wall
classic_checkWallCollisions(this) ==
  LET top == IF this.ball.y - this.ball.radius <= 0
             THEN [this EXCEPT !.ball.y = this.ball.radius,
                               !.ball.velocityY = Abs(@)]
             ELSE this
  IN  IF top.ball.y + top.ball.radius >= top.gameConfig.height
      THEN [top EXCEPT !.ball.y = top.gameConfig.height - top.ball.radius,
                       !.ball.velocityY = - Abs(@)]
      ELSE top

\* the condition of checkPaddleCollision
classic_catches(this) ==
  LET ballLeft == this.ball.x - this.ball.radius
      ballRight == this.ball.x + this.ball.radius
      ballTop == this.ball.y - this.ball.radius
      ballBottom == this.ball.y + this.ball.radius
      paddleLeft == this.paddle.x
      paddleRight == this.paddle.x + this.paddle.width
      paddleTop == this.paddle.y
      paddleBottom == this.paddle.y + this.paddle.height
  IN  /\ ballRight >= paddleLeft
      /\ ballLeft <= paddleRight
      /\ ballBottom >= paddleTop
      /\ ballTop <= paddleBottom
      /\ this.ball.velocityX > 0

\* checkPaddleCollision()
classic_checkPaddleCollision(this) ==
  IF classic_catches(this)
  THEN LET hitPos == hitPosition(this.ball.y - this.paddle.y, this.paddle.height)
           bounceAngle == bounceAngleOf(hitPos)
       IN  [this EXCEPT !.ball.velocityX = - Abs(@),
                        !.ball.velocityY = Scaled(Sin(bounceAngle), this.ball.speed),
                        !.ball.x = this.paddle.x - this.ball.radius - 1]
  ELSE this

\* resetBall that re-centres the ball and keeps its velocity
classic_resetBall_KeepsDirection(this, rnd) ==
  LET fresh == classic_createInitialBall(this, rnd)
  IN  [this EXCEPT !.ball.x = fresh.x, !.ball.y = fresh.y]

\* resetBall()
classic_resetBall(this, rnd) == [this EXCEPT !.ball = classic_createInitialBall(this, rnd)]

\* checkBallReset that resets as soon as the ball's edge is at the boundary
classic_checkBallReset_AtBoundary(this, rnd) ==
  IF this.ball.x - this.ball.radius <= 0 THEN classic_resetBall(this, rnd) ELSE this

\* checkBallReset()
classic_checkBallReset(this, rnd) ==
  IF this.ball.x + this.ball.radius < 0 THEN classic_resetBall(this, rnd) ELSE this

\* checkCollisions()
classic_checkCollisions(this, rnd) ==
  classic_checkBallReset(classic_checkPaddleCollision(classic_checkWallCollisions(this)), rnd)

\* update(deltaTime, inputState)
classic_update(this, deltaTime, inputState, rnd) ==
  IF ~ this.gameConfig.isRunning THEN this
  ELSE classic_checkCollisions(
         classic_updateBall(classic_updatePaddle(this, deltaTime, inputState), deltaTime), rnd)

\* reset()
classic_reset(this, rnd) ==
  [this EXCEPT !.ball = classic_createInitialBall(this, rnd),
               !.paddle = classic_createInitialPaddle(this),
               !.gameConfig.isRunning = FALSE]

\* setState(state): a key that is absent reads as undefined
classic_setState(this, state) ==
  [ ball |-> IF "ball" \in DOMAIN state THEN state.ball ELSE this.ball,
    paddle |-> IF "paddle" \in DOMAIN state THEN state.paddle ELSE this.paddle,
    gameConfig |-> IF "gameConfig" \in DOMAIN state THEN state.gameConfig
                   ELSE this.gameConfig ]

\* start()
classic_start(this) == [this EXCEPT !.gameConfig.isRunning = TRUE]

\* pause()
classic_pause(this) == [this EXCEPT !.gameConfig.isRunning = FALSE]

\* what one update finds once the ball has moved: its edge at the top,
\* bottom or left boundary, the ball wholly past the left or right edge,
\* and whether the paddle catches it
classic_events(this, deltaTime, inputState) ==
  IF ~ this.gameConfig.isRunning
  THEN [top |-> FALSE, bottom |-> FALSE, left |-> FALSE, pastLeft |-> FALSE,
        pastRight |-> FALSE, caught |-> FALSE]
  ELSE LET moved == classic_updateBall(classic_updatePaddle(this, deltaTime, inputState),
                                       deltaTime)
           b == moved.ball
       IN  [ top |-> b.y - b.radius <= 0,
             bottom |-> b.y + b.radius >= moved.gameConfig.height,
             left |-> b.x - b.radius <= 0,
             pastLeft |-> b.x + b.radius < 0,
             pastRight |-> b.x - b.radius > moved.gameConfig.width,
             caught |-> classic_catches(classic_checkWallCollisions(moved)) ]

MaxBallX == 850        \* the classic update is explored while ball.x < MaxBallX

\* deltaTime values of the classic update, in milliseconds
ClassicDeltaTimes == {100}

\* input states of the classic update: no key, up, down
ClassicInputStates == {[f \in {} |-> 0], [up |-> TRUE], [down |-> TRUE]}

\* the four-paddle object is not constructed
NoFourPaddle ==
  /\ ball = Absent
  /\ paddles = Absent
  /\ gameConfig = Absent
  /\ score = Absent
  /\ lives = Absent
  /\ gameOver = Absent
  /\ finalScore = Absent
  /\ reserveTeamUsed = Absent
  /\ showReserveTeamOption = Absent
  /\ activations = 0

\* the record of a call on the classic object
ClassicCall(name) ==
  [ op |-> name, isRunning |-> classic.gameConfig.isRunning,
    top |-> FALSE, bottom |-> FALSE, left |-> FALSE, pastLeft |-> FALSE,
    pastRight |-> FALSE, caught |-> FALSE ]

\* the record of an update call on the classic object
ClassicUpdateCall(deltaTime, inputState) ==
  LET events == classic_events(classic, deltaTime, inputState)
  IN  [ op |-> "update", isRunning |-> classic.gameConfig.isRunning,
        top |-> events.top, bottom |-> events.bottom, left |-> events.left,
        pastLeft |-> events.pastLeft, pastRight |-> events.pastRight,
        caught |-> events.caught ]

InitClassic ==
  /\ NoFourPaddle
  /\ \E rnd \in RandomValues : classic = classic_constructor(rnd)
  /\ legacy = Absent
  /\ game = Absent
  /\ inputHandler = Absent
  /\ last = [ op |-> "constructor", isRunning |-> FALSE,
              top |-> FALSE, bottom |-> FALSE, left |-> FALSE, pastLeft |-> FALSE,
              pastRight |-> FALSE, caught |-> FALSE ]

ClassicUpdate ==
  /\ classic.ball.x < MaxBallX
  /\ \E deltaTime \in ClassicDeltaTimes, inputState \in ClassicInputStates,
        rnd \in RandomValues :
       /\ classic' = classic_update(classic, deltaTime, inputState, rnd)
       /\ last' = ClassicUpdateCall(deltaTime, inputState)
  /\ UNCHANGED <<matchState, activations, legacy, game, inputHandler>>

ClassicStart ==
  /\ classic' = classic_start(classic)
  /\ last' = ClassicCall("start")
  /\ UNCHANGED <<matchState, activations, legacy, game, inputHandler>>

ClassicPause ==
  /\ classic' = classic_pause(classic)
  /\ last' = ClassicCall("pause")
  /\ UNCHANGED <<matchState, activations, legacy, game, inputHandler>>

ClassicReset ==
  /\ \E rnd \in RandomValues : classic' = classic_reset(classic, rnd)
  /\ last' = ClassicCall("reset")
  /\ UNCHANGED <<matchState, activations, legacy, game, inputHandler>>

\* a ball returned by the paddle that is about to leave the field at the
\* upper left corner
ClassicCornerSnapshot ==
  [ ball |-> [ x |-> 19, y |-> 22, velocityX |-> -300, velocityY |-> -114,
               radius |-> 10, speed |-> 300 ] ]

\* the snapshots handed to the classic setState
ClassicSnapshots == << [key \in {} |-> 0], ClassicCornerSnapshot >>

ClassicSetState ==
  /\ \E i \in 1..Len(ClassicSnapshots) :
       classic' = classic_setState(classic, ClassicSnapshots[i])
  /\ last' = ClassicCall("setState")
  /\ UNCHANGED <<matchState, activations, legacy, game, inputHandler>>

NextClassic ==
  \/ ClassicUpdate
  \/ ClassicStart
  \/ ClassicPause
  \/ ClassicReset
  \/ ClassicSetState

SpecClassic == InitClassic /\ [][NextClassic]_vars

\* the unattended classic match is explored with one frame time, in
\* milliseconds
IdleDeltaTimes == {100}

\* update(deltaTime, {}) of an unattended classic match
\* a ball further right than MaxBallX is explored at MaxBallX: the code
\* compares ball.x with the paddle and the left edge only, and treats every
\* position past the right edge alike
keptInSight(this) == [this EXCEPT !.ball.x = Min(@, MaxBallX)]

ClassicUpdateIdle ==
  /\ \E deltaTime \in IdleDeltaTimes, rnd \in RandomValues :
       /\ classic' = keptInSight(classic_update(classic, deltaTime, [f \in {} |-> 0], rnd))
       /\ last' = ClassicUpdateCall(deltaTime, [f \in {} |-> 0])
  /\ UNCHANGED <<matchState, activations, legacy, game, inputHandler>>

NextClassicIdle ==
  \/ ClassicUpdateIdle
  \/ ClassicStart

\* the unattended classic match with update calls that keep coming
SpecClassicFair == InitClassic /\ [][NextClassicIdle]_vars /\ WF_vars(ClassicUpdateIdle)

-----------------------------------------------------------------------------
(* The legacy GameState (pong-game/public/GameState.js): one paddle on the
   right, a score, no isRunning flag *)

\* Math.PI / 4 in milliradians
PiFourth == 785

\* reset(): ball, paddle, bounds and score of a new game
legacy_reset(this) ==
  [ ball |-> [ x |-> 400, y |-> 300, vx |-> 200, vy |-> 150, radius |-> 10 ],
    paddle |-> [ x |-> 750, y |-> 250, width |-> 15, height |-> 100, speed |-> 300 ],
    bounds |-> [ width |-> 800, height |-> 600 ],
    score |-> 0 ]

\* constructor(): this.reset()
legacy_constructor == legacy_reset([ f \in {} |-> 0 ])

\* update, its first part: the paddle follows the keys and is kept in bounds
legacy_updatePaddle(this, deltaTime, inputState) ==
  LET paddle == this.paddle
      up == IF pressed(inputState, "up") /\ paddle.y > 0
            THEN paddle.y - Scaled(paddle.speed, deltaTime)
            ELSE paddle.y
      down == IF pressed(inputState, "down") /\ up + paddle.height < this.bounds.height
              THEN up + Scaled(paddle.speed, deltaTime)
              ELSE up
      room == this.bounds.height - paddle.height
      y == IF Min(down, room) < 0 THEN 0 ELSE Min(down, room)
  IN  [this EXCEPT !.paddle.y = y]

\* update: the ball moves by its velocity
legacy_updateBall(this, deltaTime) ==
  [this EXCEPT !.ball.x = @ + Scaled(this.ball.vx, deltaTime),
               !.ball.y = @ + Scaled(this.ball.vy, deltaTime)]

\* update: the ball at the top or bottom wall
legacy_wallCollision(this) ==
  LET b == this.ball
      low == this.bounds.height - b.radius
      y == IF Min(b.y, low) < b.radius THEN b.radius ELSE Min(b.y, low)
  IN  IF b.y - b.radius <= 0 \/ b.y + b.radius >= this.bounds.height
      THEN [this EXCEPT !.ball.vy = - b.vy, !.ball.y = y]
      ELSE this

\* update: the condition of the collision with the paddle
legacy_hitsPaddle(this) ==
  LET b == this.ball
      p == this.paddle
  IN  /\ b.x + b.radius >= p.x
      /\ b.x - b.radius <= p.x + p.width
      /\ b.y >= p.y
      /\ b.y <= p.y + p.height

\* the collision with the paddle that forgets the point
legacy_paddleCollision_NoPoint(this) ==
  LET b == this.ball
      p == this.paddle
  IN  IF legacy_hitsPaddle(this)
      THEN [this EXCEPT !.ball.vx = - Abs(b.vx), !.ball.x = p.x - b.radius]
      ELSE this

\* update: the collision with the paddle; hitPos in thousandths, the
\* bounce angle in milliradians
legacy_paddleCollision(this) ==
  LET b == this.ball
      p == this.paddle
      paddleCenter == p.y + p.height \div 2
      hitPos == ((b.y - paddleCenter) * 1000) \div (p.height \div 2)
      bounceAngle == (hitPos * PiFourth) \div 1000
      speed == Sqrt(b.vx * b.vx + b.vy * b.vy)
  IN  IF legacy_hitsPaddle(this)
      THEN [this EXCEPT !.ball.vx = - Abs((Cos(bounceAngle) * speed) \div 1000),
                        !.ball.vy = (Sin(bounceAngle) * speed) \div 1000,
                        !.ball.x = p.x - b.radius,
                        !.score = @ + 1]
      ELSE this

\* update: the ball at the left wall starts a new game
legacy_leftWall(this) ==
  IF this.ball.x - this.ball.radius <= 0 THEN legacy_reset(this) ELSE this

\* update: the ball bounces off the right wall
legacy_rightWall(this) ==
  IF this.ball.x + this.ball.radius >= this.bounds.width
  THEN [this EXCEPT !.ball.vx = - this.ball.vx,
                    !.ball.x = this.bounds.width - this.ball.radius]
  ELSE this

\* update(deltaTime, inputState = {})
legacy_update(this, deltaTime, inputState) ==
  legacy_rightWall(legacy_leftWall(legacy_paddleCollision(legacy_wallCollision(
    legacy_updateBall(legacy_updatePaddle(this, deltaTime, inputState), deltaTime)))))

\* does this update catch the ball with the paddle
legacy_caught(this, deltaTime, inputState) ==
  legacy_hitsPaddle(legacy_wallCollision(
    legacy_updateBall(legacy_updatePaddle(this, deltaTime, inputState), deltaTime)))

\* getState()
legacy_getState(this) ==
  [ ball |-> this.ball, paddle |-> this.paddle, bounds |-> this.bounds,
    score |-> this.score ]

\* setState(state)
legacy_setState(this, state) ==
  [ ball |-> state.ball, paddle |-> state.paddle, bounds |-> state.bounds,
    score |-> state.score ]

MaxLegacySteps == 90    \* the legacy update is explored this many times

\* deltaTime values of the legacy update, in milliseconds; 1/30 s is 33.3
LegacyDeltaTimes == {20, 30}

\* update(deltaTime) takes the default inputState, the empty object
LegacyInputStates == {[f \in {} |-> 0]}

\* the state the scenario starts from: the ball of a new game with vy = 0
LegacyScenario ==
  [legacy_getState(legacy_constructor) EXCEPT !.ball.vy = 0]

InitLegacy ==
  /\ NoFourPaddle
  /\ classic = Absent
  /\ game = Absent
  /\ inputHandler = Absent
  /\ legacy = legacy_setState(legacy_constructor, LegacyScenario)
  /\ last = [ op |-> "setState", caught |-> FALSE, catches |-> 0, steps |-> 0 ]

LegacyUpdate ==
  /\ last.steps < MaxLegacySteps
  /\ \E deltaTime \in LegacyDeltaTimes, inputState \in LegacyInputStates :
       LET caught == legacy_caught(legacy, deltaTime, inputState)
       IN  /\ legacy' = legacy_update(legacy, deltaTime, inputState)
           /\ last' = [ op |-> "update", caught |-> caught,
                        catches |-> last.catches + (IF caught THEN 1 ELSE 0),
                        steps |-> last.steps + 1 ]
  /\ UNCHANGED <<matchState, activations, classic, game, inputHandler>>

NextLegacy == LegacyUpdate

\* the legacy game with update calls that keep coming
SpecLegacy == InitLegacy /\ [][NextLegacy]_vars /\ WF_vars(LegacyUpdate)

-----------------------------------------------------------------------------
(* The Game object (game.js): the animation-frame loop around the four-paddle
   GameState.  Times are in milliseconds; game.now is performance.now() and
   game.pending counts the callbacks given to requestAnimationFrame that the
   browser has not run yet *)

\* 1/30 s in whole milliseconds
FrameCap == 33

\* constructor(canvasId): the timing fields
game_constructor(now) ==
  [ isRunning |-> FALSE, lastTime |-> 0, previousGameOverState |-> FALSE,
    now |-> now, pending |-> 0, hidden |-> FALSE ]

\* the running Game and its GameState as one value
GameThis == [ game |-> game, gameState |-> This, passed |-> <<>>, gaps |-> <<>> ]

\* start()
game_start(st) ==
  IF st.game.isRunning
  THEN st
  ELSE [st EXCEPT !.game.isRunning = TRUE,
                  !.game.lastTime = st.game.now,
                  !.gameState = start(st.gameState),
                  !.game.pending = @ + 1]

\* pause()
game_pause(st) == [st EXCEPT !.game.isRunning = FALSE]

\* resume()
game_resume(st) ==
  IF ~ st.game.isRunning
  THEN [st EXCEPT !.game.isRunning = TRUE,
                  !.game.lastTime = st.game.now,
                  !.game.pending = @ + 1]
  ELSE st

\* reset()
game_reset(st, rnd) ==
  [st EXCEPT !.gameState = reset(st.gameState, rnd),
             !.game.previousGameOverState = FALSE]

\* the keydown listener of setupEventListeners: Enter starts the game,
\* the space bar pauses it
game_keydown(st, code) ==
  IF code = "Enter" /\ ~ st.game.isRunning /\ ~ st.gameState.gameOver
  THEN game_start(st)
  ELSE IF code = "Space" /\ st.game.isRunning
  THEN game_pause(st)
  ELSE st

\* handleVisibilityChange(), document.hidden being st.game.hidden
game_handleVisibilityChange(st) ==
  IF st.game.hidden THEN game_pause(st) ELSE game_resume(st)

\* handleGameOver()
game_handleGameOver(st) == game_pause(st)

\* checkGameOverStateChange()
game_checkGameOverStateChange(st) ==
  LET currentGameOverState == st.gameState.gameOver
      handled == IF currentGameOverState /\ ~ st.game.previousGameOverState
                 THEN game_handleGameOver(st)
                 ELSE st
  IN  [handled EXCEPT !.game.previousGameOverState = currentGameOverState]

\* the frame time handed on without the cap
cappedDeltaTime_Uncapped(deltaTime) == deltaTime

\* Math.min(deltaTime, 1/30)
cappedDeltaTime(deltaTime) == Min(deltaTime, FrameCap)

\* gameLoop(currentTime): st.passed collects the deltaTime values passed to
\* GameState.update, st.gaps the frame times they were made from
gameLoop(st, currentTime, inputState, rnd) ==
  IF ~ st.game.isRunning
  THEN st
  ELSE LET deltaTime == currentTime - st.game.lastTime
           capped == cappedDeltaTime(deltaTime)
           updated == [st EXCEPT !.game.lastTime = currentTime,
                                 !.gameState = update(st.gameState, capped, inputState, rnd),
                                 !.passed = Append(@, capped),
                                 !.gaps = Append(@, deltaTime)]
           checked == game_checkGameOverStateChange(updated)
       IN  [checked EXCEPT !.game.pending = @ + 1]

\* the browser runs the k callbacks of one animation frame, each with the
\* frame's timestamp
RECURSIVE runCallbacks(_, _, _, _, _)
runCallbacks(st, k, currentTime, inputState, rnd) ==
  IF k = 0
  THEN st
  ELSE runCallbacks(gameLoop([st EXCEPT !.game.pending = @ - 1], currentTime, inputState, rnd),
                    k - 1, currentTime, inputState, rnd)

MaxFrames == 12         \* this many animation frames are explored
MaxPending == 2         \* start and resume are explored while fewer callbacks are pending

\* the time from one animation frame to the next, in milliseconds: the same
\* instant, 60 frames a second, a stalled or hidden tab
FrameIntervals == {0, 16, 1000}

\* the variables take the fields of the Game and of its GameState
GameBecomes(st) ==
  /\ game' = st.game
  /\ Becomes(st.gameState)

\* the record of a call on the Game
GameCall(name, st, frames) ==
  [ op |-> name, passed |-> st.passed, gaps |-> st.gaps, frames |-> frames ]

InitGame ==
  /\ \E rnd \in PlayRandomValues :
       LET this == constructor(rnd)
       IN  /\ ball = this.ball
           /\ paddles = this.paddles
           /\ gameConfig = this.gameConfig
           /\ score = this.score
           /\ lives = this.lives
           /\ gameOver = this.gameOver
           /\ finalScore = this.finalScore
           /\ reserveTeamUsed = this.reserveTeamUsed
           /\ showReserveTeamOption = this.showReserveTeamOption
  /\ activations = 0
  /\ classic = Absent
  /\ legacy = Absent
  /\ game = game_constructor(0)
  /\ inputHandler = Absent
  /\ last = [ op |-> "constructor", passed |-> <<>>, gaps |-> <<>>, frames |-> 0 ]

GameStart ==
  /\ game.pending < MaxPending
  /\ GameBecomes(game_start(GameThis))
  /\ last' = GameCall("start", GameThis, last.frames)
  /\ UNCHANGED <<activations, classic, legacy, inputHandler>>

GamePause ==
  /\ GameBecomes(game_pause(GameThis))
  /\ last' = GameCall("pause", GameThis, last.frames)
  /\ UNCHANGED <<activations, classic, legacy, inputHandler>>

GameResume ==
  /\ game.pending < MaxPending
  /\ GameBecomes(game_resume(GameThis))
  /\ last' = GameCall("resume", GameThis, last.frames)
  /\ UNCHANGED <<activations, classic, legacy, inputHandler>>

GameReset ==
  /\ \E rnd \in PlayRandomValues : GameBecomes(game_reset(GameThis, rnd))
  /\ last' = GameCall("reset", GameThis, last.frames)
  /\ activations' = 0
  /\ UNCHANGED <<classic, legacy, inputHandler>>

\* a keydown event with Enter or the space bar
GameKeyDown ==
  /\ game.pending < MaxPending
  /\ \E code \in {"Enter", "Space"} :
       /\ GameBecomes(game_keydown(GameThis, code))
       /\ last' = GameCall(code, GameThis, last.frames)
  /\ UNCHANGED <<activations, classic, legacy, inputHandler>>

\* the tab is hidden or shown again: document.hidden flips and the
\* visibilitychange event is handled
VisibilityChange ==
  /\ game.pending < MaxPending
  /\ LET flipped == [GameThis EXCEPT !.game.hidden = ~ @]
     IN  /\ GameBecomes(game_handleVisibilityChange(flipped))
         /\ last' = GameCall("visibilitychange", GameThis, last.frames)
  /\ UNCHANGED <<activations, classic, legacy, inputHandler>>

\* the next animation frame: time passes and the pending callbacks run
Frame ==
  /\ last.frames < MaxFrames
  /\ \E interval \in FrameIntervals, inputState \in PlayInputStates,
        rnd \in PlayRandomValues :
       LET currentTime == game.now + interval
           st == runCallbacks([GameThis EXCEPT !.game.now = currentTime],
                              game.pending, currentTime, inputState, rnd)
       IN  /\ GameBecomes(st)
           /\ last' = GameCall("gameLoop", st, last.frames + 1)
  /\ UNCHANGED <<activations, classic, legacy, inputHandler>>

NextGame ==
  \/ GameStart
  \/ GamePause
  \/ GameResume
  \/ GameReset
  \/ GameKeyDown
  \/ VisibilityChange
  \/ Frame

SpecGame == InitGame /\ [][NextGame]_vars

\* the Game as its page drives it: key events, visibility changes, reset
\* and animation frames
NextGameEvents ==
  \/ GameKeyDown
  \/ VisibilityChange
  \/ GameReset
  \/ Frame

SpecGameEvents == InitGame /\ [][NextGameEvents]_vars

-----------------------------------------------------------------------------
(* The state machine of contacts: the four-paddle GameState, or the
   single-paddle one, is given a ball that overlaps a paddle and is stepped *)

\* the paddles in the order checkPaddleCollisions looks at them
PaddleNames == <<"left", "right", "top", "bottom">>

\* the condition on the velocity in the branch of a paddle
toward(paddleName, velocityX, velocityY) ==
  \/ paddleName = "left" /\ velocityX < 0
  \/ paddleName = "right" /\ velocityX > 0
  \/ paddleName = "top" /\ velocityY < 0
  \/ paddleName = "bottom" /\ velocityY > 0

\* what the four calls of checkSinglePaddleCollision in one
\* checkPaddleCollisions() find and do, in the order of the calls: the ball
\* before and after the call, whether the edges handed in overlap the
\* paddle (which is recorded too), whether the call scored, and hitPos (in thousandths) of the
\* ball's centre along the paddle
RECURSIVE contactsFrom(_, _, _, _, _, _)
contactsFrom(this, i, ballLeft, ballRight, ballTop, ballBottom) ==
  IF i > Len(PaddleNames) THEN <<>>
  ELSE LET name == PaddleNames[i]
           paddle == this.paddles[name]
           after == checkSinglePaddleCollision(this, name, ballLeft, ballRight,
                                               ballTop, ballBottom)
           hitPos == IF name \in {"left", "right"}
                     THEN hitPosition(this.ball.y - paddle.y, paddle.height)
                     ELSE hitPosition(this.ball.x - paddle.x, paddle.width)
       IN  << [ name |-> name,
                paddle |-> paddle,
                overlapped |-> overlaps(paddle, ballLeft, ballRight, ballTop, ballBottom),
                caught |-> after.score # this.score,
                hitPos |-> hitPos,
                before |-> this.ball,
                after |-> after.ball ] >>
           \o contactsFrom(after, i + 1, ballLeft, ballRight, ballTop, ballBottom)

contacts(this) ==
  contactsFrom(this, 1, this.ball.x - this.ball.radius, this.ball.x + this.ball.radius,
               this.ball.y - this.ball.radius, this.ball.y + this.ball.radius)

\* where the ball's centre is put along the paddle: 5 px before its start
\* edge, at its middle, 5 px beyond its end edge
ContactPlaces == {"before", "middle", "beyond"}

alongOf(place, length) ==
  CASE place = "before" -> -5
    [] place = "middle" -> length \div 2
    [] place = "beyond" -> length + 5

\* a ball of a first rally whose edge is 5 px into the paddle's play-side
\* face, flying straight toward the paddle or straight away from it
contactBall(paddle, paddleName, place, isToward) ==
  LET sign == IF isToward THEN 1 ELSE -1
      vertical == paddleName \in {"left", "right"}
      along == alongOf(place, IF vertical THEN paddle.height ELSE paddle.width)
  IN  [ x |-> CASE paddleName = "left" -> paddle.x + paddle.width + 5
                [] paddleName = "right" -> paddle.x - 5
                [] OTHER -> paddle.x + along,
        y |-> CASE paddleName = "top" -> paddle.y + paddle.height + 5
                [] paddleName = "bottom" -> paddle.y - 5
                [] OTHER -> paddle.y + along,
        velocityX |-> CASE paddleName = "left" -> - sign * 300
                        [] paddleName = "right" -> sign * 300
                        [] OTHER -> 0,
        velocityY |-> CASE paddleName = "top" -> - sign * 300
                        [] paddleName = "bottom" -> sign * 300
                        [] OTHER -> 0,
        radius |-> 10, speed |-> 300, baseSpeed |-> 300, maxSpeed |-> 700 ]

\* the ball of CrossSnapshot when it has arrived in the upper left corner
CrossContactSnapshot == [CrossSnapshot EXCEPT !.ball.x = 40, !.ball.y = 41]

\* the running matches a contact is placed in: a first match, and a match
\* of the reserve team with its halved paddles
ContactMatches ==
  { start(constructor(rnd)) : rnd \in PlayRandomValues }
    \cup { activateReserveTeam(constructor(rnd), rnd) : rnd \in PlayRandomValues }

\* the four-paddle objects with a ball in contact
ContactObjects ==
  { setState(m, [ball |-> contactBall(m.paddles[name], name, place, isToward)]) :
      m \in ContactMatches, name \in {"left", "right", "top", "bottom"},
      place \in ContactPlaces, isToward \in BOOLEAN }
    \cup { setState(m, CrossContactSnapshot) : m \in ContactMatches }

\* the single-paddle objects with a ball in contact
ClassicContactObjects ==
  { LET m == classic_start(classic_constructor(rnd))
    IN  classic_setState(m, [ball |-> [ x |-> m.paddle.x - 5,
                                        y |-> m.paddle.y + alongOf(place, m.paddle.height),
                                        velocityX |-> IF isToward THEN 300 ELSE -300,
                                        velocityY |-> 0,
                                        radius |-> 10, speed |-> 300 ]]) :
      rnd \in PlayRandomValues, place \in ContactPlaces, isToward \in BOOLEAN }

MaxContactSteps == 2    \* this many updates are explored after a ball is placed

\* deltaTime values of the updates on a contact, in milliseconds
ContactDeltaTimes == {0, 100}

\* the record of an update on a contact: the ball once it has moved, the
\* contacts of the step, and whether a wall ends it
ContactCall(deltaTime, inputState) ==
  LET moved == updateBall(updatePaddles(This, deltaTime, inputState), deltaTime)
  IN  [ op |-> "update", steps |-> last.steps + 1, deltaTime |-> deltaTime,
        moved |-> moved.ball,
        contacts |-> contacts(moved),
        wall |-> hitsWall(checkPaddleCollisions(moved)) ]

\* the record of an update on a classic contact
ClassicContactCall(deltaTime, inputState) ==
  LET moved == classic_checkWallCollisions(
                 classic_updateBall(classic_updatePaddle(classic, deltaTime, inputState),
                                    deltaTime))
      after == classic_checkPaddleCollision(moved)
  IN  [ op |-> "classic.update", steps |-> last.steps + 1, deltaTime |-> deltaTime,
        moved |-> moved.ball,
        contacts |-> << [ name |-> "right",
                          paddle |-> moved.paddle,
                          overlapped |-> overlaps(moved.paddle,
                                                  moved.ball.x - moved.ball.radius,
                                                  moved.ball.x + moved.ball.radius,
                                                  moved.ball.y - moved.ball.radius,
                                                  moved.ball.y + moved.ball.radius),
                          caught |-> after.ball # moved.ball,
                          hitPos |-> hitPosition(moved.ball.y - moved.paddle.y,
                                                 moved.paddle.height),
                          before |-> moved.ball,
                          after |-> after.ball ] >>,
        wall |-> FALSE ]

InitContact ==
  /\ \/ /\ \E this \in ContactObjects :
             /\ ball = this.ball
             /\ paddles = this.paddles
             /\ gameConfig = this.gameConfig
             /\ score = this.score
             /\ lives = this.lives
             /\ gameOver = this.gameOver
             /\ finalScore = this.finalScore
             /\ reserveTeamUsed = this.reserveTeamUsed
             /\ showReserveTeamOption = this.showReserveTeamOption
        /\ classic = Absent
        /\ last = [ op |-> "setState", steps |-> 0, deltaTime |-> 0, moved |-> Absent,
                    contacts |-> <<>>, wall |-> FALSE ]
     \/ /\ NoFourPaddle
        /\ classic \in ClassicContactObjects
        /\ last = [ op |-> "classic.setState", steps |-> 0, deltaTime |-> 0,
                    moved |-> Absent, contacts |-> <<>>, wall |-> FALSE ]
  /\ activations = 0
  /\ legacy = Absent
  /\ game = Absent
  /\ inputHandler = Absent

ContactUpdate ==
  /\ last.op \in {"setState", "update"}
  /\ last.steps < MaxContactSteps
  /\ \E deltaTime \in ContactDeltaTimes, inputState \in PlayInputStates,
        rnd \in PlayRandomValues :
       /\ Becomes(update(This, deltaTime, inputState, rnd))
       /\ last' = ContactCall(deltaTime, inputState)
  /\ UNCHANGED activations
  /\ UNCHANGED others

ClassicContactUpdate ==
  /\ last.op \in {"classic.setState", "classic.update"}
  /\ last.steps < MaxContactSteps
  /\ \E deltaTime \in ContactDeltaTimes, inputState \in PlayInputStates,
        rnd \in PlayRandomValues :
       /\ classic' = classic_update(classic, deltaTime, inputState, rnd)
       /\ last' = ClassicContactCall(deltaTime, inputState)
  /\ UNCHANGED <<matchState, activations, legacy, game, inputHandler>>

NextContact ==
  \/ ContactUpdate
  \/ ClassicContactUpdate

SpecContact == InitContact /\ [][NextContact]_vars

-----------------------------------------------------------------------------
(* The state machine of the keys: a running four-paddle match is stepped
   with every input state, and each step records the input state it got *)

MaxKeySteps == 3        \* this many updates are explored

\* deltaTime values of these updates, in milliseconds
KeyDeltaTimes == {100}

\* the value updatePaddles reads from an axis of inputState: a missing
\* field leaves the velocity at the 0 it was reset to
axisValue(inputState, axis) ==
  IF axis \in DOMAIN inputState THEN inputState[axis] ELSE 0

KeyCall(name, deltaTime, inputState) ==
  [ op |-> name, steps |-> last.steps + 1, deltaTime |-> deltaTime,
    inputState |-> inputState ]

InitKeys ==
  /\ \E rnd \in PlayRandomValues :
       LET this == start(constructor(rnd))
       IN  /\ ball = this.ball
           /\ paddles = this.paddles
           /\ gameConfig = this.gameConfig
           /\ score = this.score
           /\ lives = this.lives
           /\ gameOver = this.gameOver
           /\ finalScore = this.finalScore
           /\ reserveTeamUsed = this.reserveTeamUsed
           /\ showReserveTeamOption = this.showReserveTeamOption
  /\ activations = 0
  /\ classic = Absent
  /\ legacy = Absent
  /\ game = Absent
  /\ inputHandler = Absent
  /\ last = [ op |-> "start", steps |-> 0, deltaTime |-> 0,
              inputState |-> [f \in {} |-> 0] ]

KeyUpdate ==
  /\ last.steps < MaxKeySteps
  /\ \E deltaTime \in KeyDeltaTimes, inputState \in InputStates,
        rnd \in PlayRandomValues :
       /\ Becomes(update(This, deltaTime, inputState, rnd))
       /\ last' = KeyCall("update", deltaTime, inputState)
  /\ UNCHANGED activations
  /\ UNCHANGED others

\* the reserve team comes in, with its faster paddles
KeyActivateReserveTeam ==
  /\ activations < MaxActivations
  /\ last.steps < MaxKeySteps
  /\ \E rnd \in PlayRandomValues : Becomes(activateReserveTeam(This, rnd))
  /\ last' = KeyCall("activateReserveTeam", 0, [f \in {} |-> 0])
  /\ activations' = activations + 1
  /\ UNCHANGED others

NextKeys ==
  \/ KeyUpdate
  \/ KeyActivateReserveTeam

SpecKeys == InitKeys /\ [][NextKeys]_vars

-----------------------------------------------------------------------------
(* The InputHandler (InputHandler.js): the keys it tracks and the input
   state it makes of them *)

\* the key names of this.keys, by event.code
KeyOfCode ==
  [ ArrowUp |-> "up", ArrowDown |-> "down", ArrowLeft |-> "left", ArrowRight |-> "right",
    KeyW |-> "w", KeyS |-> "s", KeyA |-> "a", KeyD |-> "d" ]

\* the codes of the keyboard events: the eight keys of the switch
\* statements and two that fall through them
EventCodes == DOMAIN KeyOfCode \cup {"Space", "Enter"}

\* constructor(): no key is down
input_constructor == [ keys |-> [ k \in {"up", "down", "left", "right", "w", "s", "a", "d"} |-> FALSE ] ]

\* handleKeyDown(event)
handleKeyDown(this, code) ==
  IF code \in DOMAIN KeyOfCode
  THEN [this EXCEPT !.keys[KeyOfCode[code]] = TRUE]
  ELSE this

\* handleKeyUp(event)
handleKeyUp(this, code) ==
  IF code \in DOMAIN KeyOfCode
  THEN [this EXCEPT !.keys[KeyOfCode[code]] = FALSE]
  ELSE this

\* getInputState in which opposite keys cancel
getInputState_Cancelling(this) ==
  [ vertical |-> (IF this.keys.down \/ this.keys.s THEN 1 ELSE 0)
                   - (IF this.keys.up \/ this.keys.w THEN 1 ELSE 0),
    horizontal |-> (IF this.keys.right \/ this.keys.d THEN 1 ELSE 0)
                     - (IF this.keys.left \/ this.keys.a THEN 1 ELSE 0) ]

\* getInputState(): the two axes (the timestamp field, which GameState
\* does not read, is left out)
getInputState(this) ==
  [ vertical |-> IF this.keys.up \/ this.keys.w THEN -1
                 ELSE IF this.keys.down \/ this.keys.s THEN 1
                 ELSE 0,
    horizontal |-> IF this.keys.left \/ this.keys.a THEN -1
                   ELSE IF this.keys.right \/ this.keys.d THEN 1
                   ELSE 0 ]

\* the record of a keyboard event: held is the set of codes whose last
\* event was a keydown
InputCall(name, code, held) == [ op |-> name, code |-> code, held |-> held ]

InitInput ==
  /\ NoFourPaddle
  /\ classic = Absent
  /\ legacy = Absent
  /\ game = Absent
  /\ inputHandler = input_constructor
  /\ last = InputCall("constructor", "", {})

KeyDown ==
  /\ \E code \in EventCodes :
       /\ inputHandler' = handleKeyDown(inputHandler, code)
       /\ last' = InputCall("keydown", code, last.held \cup {code})
  /\ UNCHANGED <<matchState, activations, classic, legacy, game>>

KeyUp ==
  /\ \E code \in EventCodes :
       /\ inputHandler' = handleKeyUp(inputHandler, code)
       /\ last' = InputCall("keyup", code, last.held \ {code})
  /\ UNCHANGED <<matchState, activations, classic, legacy, game>>

NextInput ==
  \/ KeyDown
  \/ KeyUp

SpecInput == InitInput /\ [][NextInput]_vars

-----------------------------------------------------------------------------
(* The state machine of an unattended match: the frames keep coming, no key
   is pressed, and the reserve team is accepted or declined when offered *)

MaxCaughtScore == 0     \* update is explored while score <= MaxCaughtScore

\* deltaTime values of the frames, in milliseconds (1/30 s is 33.3)
EndDeltaTimes == {33}

\* Math.random() of the serves, in thousandths: the two ends of the window
\* and its middle
EndRandomValues == {0, 501, 999}

InitEnd ==
  /\ \E rnd \in EndRandomValues :
       LET this == start(constructor(rnd))
       IN  /\ ball = this.ball
           /\ paddles = this.paddles
           /\ gameConfig = this.gameConfig
           /\ score = this.score
           /\ lives = this.lives
           /\ gameOver = this.gameOver
           /\ finalScore = this.finalScore
           /\ reserveTeamUsed = this.reserveTeamUsed
           /\ showReserveTeamOption = this.showReserveTeamOption
  /\ activations = 0
  /\ last = [ op |-> "start", isRunning |-> FALSE, gameOver |-> FALSE,
              offered |-> FALSE, used |-> FALSE, lives |-> 3,
              catches |-> 0, reached |-> FALSE, wall |-> FALSE, streak |-> 0,
              arg |-> <<>> ]
  /\ classic = Absent
  /\ legacy = Absent
  /\ game = Absent
  /\ inputHandler = Absent

EndUpdate ==
  /\ score <= MaxCaughtScore
  /\ lives > - MaxLivesBelow
  /\ \E deltaTime \in EndDeltaTimes, inputState \in PlayInputStates,
        rnd \in EndRandomValues :
       /\ Becomes(update(This, deltaTime, inputState, rnd))
       /\ last' = UpdateCall(deltaTime, inputState)
  /\ UNCHANGED activations
  /\ UNCHANGED others

\* the offer is accepted
EndActivateReserveTeam ==
  /\ showReserveTeamOption
  /\ activations < MaxActivations
  /\ \E rnd \in EndRandomValues : Becomes(activateReserveTeam(This, rnd))
  /\ last' = Call("activateReserveTeam")
  /\ activations' = activations + 1
  /\ UNCHANGED others

\* the offer is declined
EndDeclineReserveTeam ==
  /\ showReserveTeamOption
  /\ Becomes(declineReserveTeam(This))
  /\ last' = Call("declineReserveTeam")
  /\ UNCHANGED activations
  /\ UNCHANGED others

NextEnd ==
  \/ EndUpdate
  \/ EndActivateReserveTeam
  \/ EndDeclineReserveTeam

\* the unattended match with update calls that keep coming
SpecEnd == InitEnd /\ [][NextEnd]_vars /\ WF_vars(EndUpdate)

-----------------------------------------------------------------------------
(* Properties of the four-paddle GameState *)


\* C1: update called while gameConfig.isRunning is false or while gameOver
\* is true changes nothing: ball, paddles, score, lives, gameOver,
\* finalScore, the reserve flags and gameConfig keep their values, for
\* every deltaTime and every inputState.
C1_UpdateIsNoOpWhenStopped ==
  [][ (last'.op = "update" /\ (~ gameConfig.isRunning \/ gameOver))
        => UNCHANGED matchState ]_vars

\* update has been called on a match that is over although its running
\* flag is set
C1_Witness ==
  /\ last.op = "update"
  /\ last.gameOver
  /\ last.isRunning
  /\ ~ last.used

\* C2: lives is an integer in 0..3 in every state reachable by start,
\* pause, update, activateReserveTeam, declineReserveTeam and reset; it
\* never becomes negative.
C2_LivesInRange == lives \in 0..3

\* C3: each left/right paddle satisfies 0 <= y and y + height <= field
\* height, and each top/bottom paddle satisfies 0 <= x and x + width <=
\* field width, in every reachable state.
C3_PaddlesInBounds ==
  /\ \A name \in {"left", "right"} :
       /\ 0 <= paddles[name].y
       /\ paddles[name].y + paddles[name].height <= gameConfig.height
  /\ \A name \in {"top", "bottom"} :
       /\ 0 <= paddles[name].x
       /\ paddles[name].x + paddles[name].width <= gameConfig.width

\* an update has pushed the side paddles against the lower edge and the
\* top/bottom paddles against the left edge
C3_Witness ==
  /\ last.op = "update"
  /\ last.isRunning /\ ~ last.gameOver
  /\ paddles.right.velocityY > 0
  /\ paddles.right.y + paddles.right.height = gameConfig.height
  /\ paddles.top.velocityX < 0
  /\ paddles.top.x = 0

\* C4: when an update brings lives to 0 while the reserve has not been
\* used, then at the end of that update showReserveTeamOption is true,
\* gameConfig.isRunning is false and gameOver is still false.
C4_ReserveOfferedAtZeroLives ==
  (last.op = "update" /\ last.lives > 0 /\ lives = 0 /\ ~ last.used)
    => (showReserveTeamOption /\ ~ gameConfig.isRunning /\ ~ gameOver)

\* an update has taken the last life of a match whose reserve is unused
C4_Witness ==
  /\ last.op = "update"
  /\ last.lives = 1
  /\ lives = 0
  /\ ~ last.used
  /\ ~ reserveTeamUsed

\* C5: after activateReserveTeam() in the reserve-offered state the ball's
\* speed is 1.6 times the speed it had immediately before the call.
C5_BallSpeedTimesFactor ==
  [][ (last'.op = "activateReserveTeam" /\ showReserveTeamOption)
        => ball'.speed * 10 = ball.speed * 16 ]_vars

\* C6: activateReserveTeam() in the reserve-offered state sets lives to 1
\* and isRunning to true, clears showReserveTeamOption, sets
\* reserveTeamUsed, halves the height of left/right and the width of
\* top/bottom, multiplies every paddle's speed by 1.3, and leaves score and
\* gameOver unchanged.
C6_ActivateReserveTeamEffect ==
  [][ (last'.op = "activateReserveTeam" /\ showReserveTeamOption)
        => /\ lives' = 1
           /\ gameConfig'.isRunning
           /\ ~ showReserveTeamOption'
           /\ reserveTeamUsed'
           /\ \A name \in {"left", "right"} :
                /\ 2 * paddles'[name].height = paddles[name].height
                /\ paddles'[name].width = paddles[name].width
           /\ \A name \in {"top", "bottom"} :
                /\ 2 * paddles'[name].width = paddles[name].width
                /\ paddles'[name].height = paddles[name].height
           /\ \A name \in {"left", "right", "top", "bottom"} :
                10 * paddles'[name].speed = 13 * paddles[name].speed
           /\ score' = score
           /\ gameOver' = gameOver ]_vars

\* the reserve has been activated from the offer, with points on the board
C6_Witness ==
  /\ last.op = "activateReserveTeam"
  /\ last.offered
  /\ ~ last.used
  /\ score > 0

\* C7: declineReserveTeam() in the reserve-offered state ends the match:
\* afterwards gameOver is true, finalScore equals score,
\* showReserveTeamOption is false and gameConfig.isRunning is false.
C7_DeclineEndsMatch ==
  (last.op = "declineReserveTeam" /\ last.offered)
    => /\ gameOver
       /\ finalScore = score
       /\ ~ showReserveTeamOption
       /\ ~ gameConfig.isRunning

\* C8: once activateReserveTeam() has been called in a match, the update
\* that brings lives to 0 sets gameOver, clears isRunning and sets
\* finalScore to score in that same step, and showReserveTeamOption is not
\* set again before reset().
C8_ReserveIsOneTime ==
  [][ (activations > 0 /\ last'.op # "reset")
        => /\ ~ showReserveTeamOption'
           /\ (last'.op = "update" /\ lives > 0 /\ lives' <= 0)
                => (gameOver' /\ ~ gameConfig'.isRunning /\ finalScore' = score') ]_vars

\* after the reserve was activated an update has taken the last life
C8_Witness ==
  /\ last.op = "update"
  /\ activations > 0
  /\ last.used
  /\ ~ last.gameOver
  /\ last.lives = 1
  /\ lives = 0

\* C9: activateReserveTeam() and declineReserveTeam() called while
\* showReserveTeamOption is not set leave lives, ball, paddles, score,
\* gameOver, finalScore, reserveTeamUsed and isRunning unchanged.
C9_ReserveCallsNeedOffer ==
  [][ (last'.op \in {"activateReserveTeam", "declineReserveTeam"}
         /\ ~ showReserveTeamOption)
        => UNCHANGED <<lives, ball, paddles, score, gameOver, finalScore,
                       reserveTeamUsed, gameConfig>> ]_vars

\* C10: once gameOver is true it stays true and no update changes ball,
\* paddles, score or lives, whatever update, start, pause,
\* activateReserveTeam and declineReserveTeam calls follow, until reset().
C10_GameOverIsTerminal ==
  [][ (gameOver /\ last'.op # "reset")
        => /\ gameOver'
           /\ (last'.op = "update") => UNCHANGED <<ball, paddles, score, lives>> ]_vars

\* update has been called on a finished match that activateReserveTeam had
\* set running again with one life
C10_Witness ==
  /\ last.op = "update"
  /\ last.gameOver
  /\ last.isRunning
  /\ last.used
  /\ lives = 1
  /\ gameOver

\* C11: in every state where gameOver is true finalScore equals score,
\* the value score had when gameOver became true, and neither changes
\* until reset(); while gameOver is false finalScore is 0.
C11_FinalScoreFrozen ==
  /\ [] (IF gameOver THEN finalScore = score ELSE finalScore = 0)
  /\ [][ (gameOver /\ last'.op # "reset")
           => (score' = score /\ finalScore' = finalScore) ]_vars

\* an update has ended a match that had points on the board
C11_Witness ==
  /\ last.op = "update"
  /\ ~ last.gameOver
  /\ gameOver
  /\ score > 0
  /\ finalScore = score

\* C12: score never decreases except by reset(); an update changes score
\* by exactly +10 for each paddle catch of that step and by 0 when there
\* was none; start, pause, activateReserveTeam and declineReserveTeam do
\* not change score.
C12_ScoreMonotone ==
  [][ /\ (last'.op # "reset") => score' >= score
      /\ (last'.op = "update") => score' = score + 10 * last'.catches
      /\ (last'.op \in {"start", "pause", "activateReserveTeam", "declineReserveTeam"})
           => score' = score ]_vars

\* an update has resolved a paddle catch
C12_Witness ==
  /\ last.op = "update"
  /\ last.catches = 1
  /\ ~ last.wall
  /\ score = 10

\* 1.07^n in ten-thousandths
RECURSIVE Pow107(_)
Pow107(n) == IF n = 0 THEN 10000 ELSE (Pow107(n - 1) * 107) \div 100

\* C13: ball.speed <= ball.maxSpeed in every state; after N consecutive
\* paddle catches of one ball its speed is min(baseSpeed * 1.07^N,
\* maxSpeed), up to the whole px/s that each escalation is rounded down
\* to; once the speed is maxSpeed a further catch leaves it there.
C13_SpeedCap ==
  /\ [] (ball.speed <= ball.maxSpeed)
  /\ [] (LET exact == Min((ball.baseSpeed * Pow107(last.streak)) \div 10000, ball.maxSpeed)
         IN  ball.speed <= exact /\ exact - ball.speed <= last.streak)
  /\ [][ (last'.op = "update" /\ last'.catches > 0 /\ ~ last'.wall
            /\ ball.speed = ball.maxSpeed)
           => ball'.speed = ball'.maxSpeed ]_vars

\* a ball at maxSpeed after 13 catches has been caught once more
C13_Witness ==
  /\ last.op = "update"
  /\ last.catches = 1
  /\ last.streak >= 14
  /\ ball.speed = 700
  /\ ball.maxSpeed = 700

\* C14 as stated: an update in which the moved ball's edge reaches or
\* crosses a field boundary takes exactly one life and respawns the ball.
C14_ReachingBoundaryCostsLife ==
  [][ (last'.op = "update" /\ last'.reached)
        => /\ lives' = lives - 1
           /\ ball'.x = 400 /\ ball'.y = 300
           /\ ball'.speed = 300 ]_vars

\* C14: an update in which the ball's edge is at or beyond a field
\* boundary once the paddle catches of the step have been resolved takes
\* exactly one life, also when two boundaries are reached at once, and
\* replaces the ball by a fresh one at the centre (400, 300) with speed =
\* baseSpeed = 300, maxSpeed = 700 and a non-zero horizontal velocity.
C14_WallHitCostsOneLife ==
  [][ (last'.op = "update" /\ last'.wall)
        => /\ lives' = lives - 1
           /\ ball'.x = 400 /\ ball'.y = 300
           /\ ball'.speed = 300 /\ ball'.baseSpeed = 300
           /\ ball'.maxSpeed = 700
           /\ ball'.velocityX # 0 ]_vars

\* a ball that had been caught and sped up has then been lost at a wall
C14_Witness ==
  /\ last.op = "update"
  /\ last.wall
  /\ last.catches = 0
  /\ score > 0
  /\ lives = last.lives - 1
  /\ ball.speed = 300

C16_ResetRestoresInitialState ==
  [][ (last'.op = "reset")
        => /\ score' = 0 /\ lives' = 3 /\ ~ gameOver' /\ finalScore' = 0
           /\ ~ reserveTeamUsed' /\ ~ showReserveTeamOption'
           /\ gameConfig' = [width |-> 800, height |-> 600, isRunning |-> FALSE]
           /\ paddles'.left = [x |-> 20, y |-> 250, width |-> 15, height |-> 100,
                               speed |-> 400, velocityY |-> 0]
           /\ paddles'.right = [x |-> 765, y |-> 250, width |-> 15, height |-> 100,
                                speed |-> 400, velocityY |-> 0]
           /\ paddles'.top = [x |-> 350, y |-> 20, width |-> 100, height |-> 15,
                              speed |-> 400, velocityX |-> 0]
           /\ paddles'.bottom = [x |-> 350, y |-> 565, width |-> 100, height |-> 15,
                                 speed |-> 400, velocityX |-> 0]
           /\ ball'.x = 400 /\ ball'.y = 300 /\ ball'.radius = 10
           /\ ball'.speed = 300 /\ ball'.baseSpeed = 300 /\ ball'.maxSpeed = 700
           /\ (last.op = "reset")
                => /\ UNCHANGED <<paddles, gameConfig, score, lives, gameOver,
                                  finalScore, reserveTeamUsed, showReserveTeamOption>>
                   /\ [ball' EXCEPT !.velocityX = 0, !.velocityY = 0]
                        = [ball EXCEPT !.velocityX = 0, !.velocityY = 0] ]_vars

\* reset() has been called on a finished match whose reserve had been
\* activated and whose paddles had moved
C16_Witness ==
  /\ last.op = "reset"
  /\ last.gameOver
  /\ last.used
  /\ lives = 3
  /\ paddles.left.height = 100

\* C17: setState(getState()) leaves every field of the state unchanged,
\* so the next update with a given deltaTime and input produces the state
\* it would have produced without the round trip.
C17_RoundTripIdentity ==
  [][ (last'.op = "roundTrip")
        => /\ UNCHANGED matchState
           /\ \A deltaTime \in DeltaTimes, inputState \in SnapshotInputStates,
                 rnd \in RandomValues :
                update(setState(This, getState(This)), deltaTime, inputState, rnd)
                  = update(This, deltaTime, inputState, rnd) ]_vars

\* the round trip has been made in a running match with points on the
\* board, after the reserve team was activated
C17_Witness ==
  /\ last.op = "roundTrip"
  /\ last.isRunning
  /\ last.used
  /\ score > 0
  /\ ~ gameOver

\* C18: a fresh GameState given the snapshot of a match is in the state of
\* that match, reserve flags included.
C18_RestoreKeepsMatch ==
  [][ (last'.op = "restore") => UNCHANGED matchState ]_vars

\* C19: setState(snapshot) sets the parts whose key the snapshot carries
\* to the snapshot's values, 0 and false included, and leaves every other
\* part unchanged.
C19_SetStateFrame ==
  [][ (last'.op = "setState")
        => LET state == last'.arg
               has(key) == key \in DOMAIN state
           IN  /\ ball' = IF has("ball") THEN state.ball ELSE ball
               /\ \A name \in {"left", "right", "top", "bottom"} :
                    paddles'[name] = IF has("paddles") /\ name \in DOMAIN state.paddles
                                     THEN state.paddles[name] ELSE paddles[name]
               /\ gameConfig' = IF has("gameConfig") THEN state.gameConfig ELSE gameConfig
               /\ score' = IF has("score") THEN state.score ELSE score
               /\ lives' = IF has("lives") THEN state.lives ELSE lives
               /\ gameOver' = IF has("gameOver") THEN state.gameOver ELSE gameOver
               /\ finalScore' = IF has("finalScore") THEN state.finalScore ELSE finalScore
               /\ UNCHANGED <<reserveTeamUsed, showReserveTeamOption>> ]_vars

\* a finished match whose reserve was used has been given score 0, lives
\* 0, gameOver false and finalScore 0; the ball it had is still there
C19_Witness ==
  /\ last.op = "setState"
  /\ DOMAIN last.arg = {"score", "lives", "gameOver", "finalScore"}
  /\ last.gameOver
  /\ last.lives # 0
  /\ ~ gameOver
  /\ score = 0
  /\ lives = 0
  /\ reserveTeamUsed
  /\ ball.x # 400

\* C20: start() only sets gameConfig.isRunning to true and pause() only
\* sets it to false; neither changes ball, paddles, score, lives,
\* gameOver, finalScore, the reserve flags or the field dimensions.
C20_StartPauseOnlyToggle ==
  [][ /\ (last'.op = "start") => gameConfig' = [gameConfig EXCEPT !.isRunning = TRUE]
      /\ (last'.op = "pause") => gameConfig' = [gameConfig EXCEPT !.isRunning = FALSE]
      /\ (last'.op \in {"start", "pause"})
           => UNCHANGED <<ball, paddles, score, lives, gameOver, finalScore,
                          reserveTeamUsed, showReserveTeamOption>> ]_vars

\* pause() has stopped a running match while the paddles were moving
C20_Witness ==
  /\ last.op = "pause"
  /\ last.isRunning
  /\ ~ gameConfig.isRunning
  /\ paddles.left.velocityY # 0
  /\ paddles.top.velocityX # 0

\* C21 as stated: no call other than reset() changes the x of the left
\* and right paddles, the y of the top and bottom paddles, or a paddle's
\* width or height.
C21_PaddleShapeFixed ==
  [][ (last'.op # "reset")
        => \A name \in {"left", "right", "top", "bottom"} :
             /\ paddles'[name].width = paddles[name].width
             /\ paddles'[name].height = paddles[name].height
             /\ (name \in {"left", "right"}) => paddles'[name].x = paddles[name].x
             /\ (name \in {"top", "bottom"}) => paddles'[name].y = paddles[name].y ]_vars

\* C21: among start, pause, update, activateReserveTeam and
\* declineReserveTeam none changes the x of the left and right paddles or
\* the y of the top and bottom paddles, and none but activateReserveTeam
\* changes a width or height; activateReserveTeam halves the height of
\* the left and right paddles and the width of the top and bottom
\* paddles and leaves their other side as it is.
C21_PaddleShapeFixedButReserve ==
  [][ (last'.op # "reset")
        => /\ \A name \in {"left", "right"} :
                /\ paddles'[name].x = paddles[name].x
                /\ paddles'[name].width = paddles[name].width
                /\ paddles'[name].height =
                     IF last'.op = "activateReserveTeam"
                     THEN TimesSizeFactor(paddles[name].height) ELSE paddles[name].height
           /\ \A name \in {"top", "bottom"} :
                /\ paddles'[name].y = paddles[name].y
                /\ paddles'[name].height = paddles[name].height
                /\ paddles'[name].width =
                     IF last'.op = "activateReserveTeam"
                     THEN TimesSizeFactor(paddles[name].width) ELSE paddles[name].width ]_vars

\* an update has moved the four halved paddles of a reserve team away
\* from where they started
C21_Witness ==
  /\ last.op = "update"
  /\ last.used
  /\ paddles.left.height = 50 /\ paddles.left.x = 20 /\ paddles.left.y # 250
  /\ paddles.top.width = 50 /\ paddles.top.y = 20 /\ paddles.top.x # 350

\* C28: in one update the ball is caught by at most one paddle: score
\* rises by at most 10 and the speed is escalated at most once.
C28_OneCatchPerStep ==
  [][ (last'.op = "update")
        => /\ last'.catches <= 1
           /\ score' <= score + 10
           /\ (~ last'.wall) => ball'.speed <= Min((ball.speed * 107) \div 100, ball.maxSpeed) ]_vars

\* C29: while the reserve offer is pending (showReserveTeamOption true,
\* lives = 0) no start, pause or update changes ball, paddles, score or
\* lives.
C29_OfferHoldsTheMatch ==
  [][ (showReserveTeamOption /\ lives = 0 /\ last'.op \in {"start", "pause", "update"})
        => UNCHANGED <<ball, paddles, score, lives>> ]_vars

\* C30: at most one of Running (gameConfig.isRunning), ReserveOffered
\* (showReserveTeamOption) and GameOver (gameOver) holds; in particular
\* gameOver implies that isRunning is false.
C30_LifecycleExclusive ==
  /\ ~ (gameConfig.isRunning /\ showReserveTeamOption)
  /\ ~ (gameConfig.isRunning /\ gameOver)
  /\ ~ (showReserveTeamOption /\ gameOver)

-----------------------------------------------------------------------------
(* Properties of the single-paddle GameState *)

\* C23: an update that finds the moved ball wholly past the left edge
\* (x + radius < 0) puts a fresh ball at the field centre, served in a new
\* direction, and the match keeps running.
C23_PastLeftEdgeRespawns ==
  [][ (last'.op = "update" /\ last'.pastLeft)
        => /\ classic'.ball.x = 400 /\ classic'.ball.y = 300
           /\ classic'.ball.velocityX > 0
           /\ classic'.ball.speed = 300
           /\ classic'.gameConfig.isRunning
           /\ classic'.paddle.height = 100 ]_vars

\* a ball returned by the paddle has left the field on the left and a
\* fresh one is at the centre
C23_Witness ==
  /\ last.op = "update"
  /\ last.pastLeft
  /\ classic.ball.x = 400
  /\ classic.ball.velocityX > 0

\* C24 as stated: an update in which the ball's edge reaches the left
\* boundary turns its horizontal velocity to the right and keeps the same
\* ball in play, in the left half of the field.
C24_LeftWallReflects ==
  [][ (last'.op = "update" /\ last'.left)
        => /\ classic'.ball.velocityX > 0
           /\ classic'.ball.x < 400 ]_vars

\* C24: the left boundary does not reflect.  An update in which the
\* ball's edge is at or beyond the left boundary leaves its horizontal
\* velocity as it is, pointing left, unless the ball is wholly past the
\* boundary (x + radius < 0): then the ball is replaced by a fresh one at
\* the centre.  Paddle and configuration stay as they are.
C24_LeftEdgePassesThenRespawns ==
  [][ (last'.op = "update" /\ last'.left)
        => /\ IF last'.pastLeft
              THEN classic'.ball.x = 400 /\ classic'.ball.y = 300
              ELSE /\ classic'.ball.velocityX = classic.ball.velocityX
                   /\ classic'.ball.velocityX < 0
                   /\ classic'.ball.x - classic'.ball.radius <= 0
           /\ classic'.gameConfig = classic.gameConfig
           /\ classic'.paddle.x = classic.paddle.x ]_vars

\* the ball straddles the left boundary and is still on its way out
C24_Witness ==
  /\ last.op = "update"
  /\ last.left
  /\ ~ last.pastLeft
  /\ classic.ball.x + classic.ball.radius >= 0
  /\ classic.ball.velocityX < 0

\* the ball is wholly past the right edge of the field
pastRightEdge == classic.ball.x - classic.ball.radius > classic.gameConfig.width

\* C25: a ball that has crossed the right edge behind the paddle does not
\* stay outside the field forever while update calls keep coming.
C25_MissedBallComesBack == pastRightEdge ~> ~ pastRightEdge

\* once wholly past the right edge, no update brings the ball back
MissedBallStaysOut ==
  [][ (pastRightEdge /\ last'.op = "update") => pastRightEdge' ]_vars

-----------------------------------------------------------------------------
(* Properties of the legacy GameState *)

\* the scenario: ball at (400,300) moving right with vx = 200 and vy = 0,
\* the paddle spanning y in [250,350] at x = 750
inLegacyScenario ==
  /\ legacy.ball.x = 400 /\ legacy.ball.y = 300
  /\ legacy.ball.vx = 200 /\ legacy.ball.vy = 0
  /\ legacy.paddle.x = 750 /\ legacy.paddle.y = 250 /\ legacy.paddle.height = 100

\* C27: in the legacy variant, from the ball at (400,300) with vx = 200 and
\* vy = 0 and the paddle spanning y in [250,350] at x = 750, repeated
\* update calls with deltaTime <= 1/30 lead to a catch; in the step where
\* the ball reaches the paddle vx becomes negative and score increases by
\* exactly 1, and score changes in no step before that.
C27_ScenarioLeadsToCatch ==
  /\ inLegacyScenario ~> (last.op = "update" /\ last.caught)
  /\ [][ (last'.op = "update" /\ last'.caught)
           => (legacy.ball.vx > 0 /\ legacy'.ball.vx < 0
               /\ legacy'.score = legacy.score + 1) ]_vars
  /\ [][ (last'.op = "update" /\ last'.catches = 0)
           => legacy'.score = legacy.score ]_vars

\* the step of the catch: the ball, 340 px further right, flies back with
\* the first point scored
C27_Witness ==
  /\ last.op = "update" /\ last.caught /\ last.catches = 1
  /\ legacy.score = 1
  /\ legacy.ball.vx = -200 /\ legacy.ball.vy = 0
  /\ legacy.ball.x = 740

-----------------------------------------------------------------------------
(* Properties of the Game loop *)

\* C22: every deltaTime that Game.gameLoop passes to GameState.update is at
\* most 1/30 second (30 * deltaTime <= 1000 ms), whatever the interval
\* between animation frames, the first frame after start, after
\* pause/resume or after a hidden tab included.
C22_DeltaTimeCapped ==
  \A i \in DOMAIN last.passed : 30 * last.passed[i] <= 1000

\* a frame that comes a second after lastTime was taken (a stalled tab):
\* update is given the cap, not the second
C22_Witness ==
  /\ last.op = "gameLoop"
  /\ \E i \in DOMAIN last.passed :
       last.gaps[i] = 1000 /\ last.passed[i] = FrameCap

-----------------------------------------------------------------------------
(* Properties of a contact between ball and paddle *)

\* the contacts of the step that scored
caughtContacts(call) ==
  { i \in DOMAIN call.contacts : call.contacts[i].caught }

\* C31: a paddle catches only a ball that overlaps it and moves toward it
\* (left: velocityX < 0, right: velocityX > 0, top: velocityY < 0, bottom:
\* velocityY > 0); a ball that overlaps a paddle while moving away from it
\* keeps its position, velocity and speed in that paddle's check, and the
\* score is not changed by that paddle.
C31_CatchOnlyToward ==
  [][ last'.op \in {"update", "classic.update"}
        => \A i \in DOMAIN last'.contacts :
             LET c == last'.contacts[i]
             IN  /\ c.caught
                      => (c.overlapped
                          /\ toward(c.name, c.before.velocityX, c.before.velocityY))
                 /\ (c.overlapped
                     /\ ~ toward(c.name, c.before.velocityX, c.before.velocityY))
                      => (~ c.caught /\ c.after = c.before) ]_vars

\* a ball that overlaps the left paddle while flying away from it has
\* gone through an update as if the paddle were not there
C31_Witness ==
  /\ last.op = "update" /\ last.deltaTime = 0
  /\ last.contacts[1].overlapped /\ ~ last.contacts[1].caught
  /\ last.contacts[1].before.velocityX > 0
  /\ ball = last.moved
  /\ score = 0

\* the velocity component perpendicular to the paddle points away from it
awayFrom(paddleName, velocityX, velocityY) ==
  \/ paddleName = "left" /\ velocityX > 0
  \/ paddleName = "right" /\ velocityX < 0
  \/ paddleName = "top" /\ velocityY > 0
  \/ paddleName = "bottom" /\ velocityY < 0

\* the ball's edge is one unit beyond the paddle's play-side face
oneBeyond(paddleName, paddle, b) ==
  \/ paddleName = "left" /\ b.x - b.radius = paddle.x + paddle.width + 1
  \/ paddleName = "right" /\ b.x + b.radius = paddle.x - 1
  \/ paddleName = "top" /\ b.y - b.radius = paddle.y + paddle.height + 1
  \/ paddleName = "bottom" /\ b.y + b.radius = paddle.y - 1

\* the paddles that caught the ball in the step
catchersOf(call) == { call.contacts[i].name : i \in caughtContacts(call) }

\* C32: immediately after a catch the ball's velocity component
\* perpendicular to the paddle points away from it and the ball is one unit
\* beyond the paddle's play-side face, no longer overlapping that paddle;
\* the same paddle does not catch the ball again in the next update, for
\* any deltaTime >= 0.
C32_OneContactScoresOnce ==
  [][ last'.op \in {"update", "classic.update"}
        => /\ \A i \in caughtContacts(last') :
                LET c == last'.contacts[i]
                    b == c.after
                IN  /\ awayFrom(c.name, b.velocityX, b.velocityY)
                    /\ oneBeyond(c.name, c.paddle, b)
                    /\ ~ overlaps(c.paddle, b.x - b.radius, b.x + b.radius,
                                  b.y - b.radius, b.y + b.radius)
           /\ catchersOf(last') \cap catchersOf(last) = {} ]_vars

\* what holds of it: every catch places the ball beyond the paddle, flying
\* away; after a step in which at most one paddle caught the ball and no
\* wall was hit, that paddle does not catch it in the next step
CatchPlacesBallBeyond ==
  [][ last'.op \in {"update", "classic.update"}
        => \A i \in caughtContacts(last') :
             LET c == last'.contacts[i]
                 b == c.after
             IN  /\ awayFrom(c.name, b.velocityX, b.velocityY)
                 /\ oneBeyond(c.name, c.paddle, b)
                 /\ ~ overlaps(c.paddle, b.x - b.radius, b.x + b.radius,
                               b.y - b.radius, b.y + b.radius) ]_vars

NoSecondCatchAfterOneCatcher ==
  [][ (last'.op \in {"update", "classic.update"}
       /\ Cardinality(catchersOf(last)) <= 1 /\ ~ last.wall)
        => catchersOf(last') \cap catchersOf(last) = {} ]_vars


\* C33: on every paddle catch hitPos, the offset of the ball's centre from
\* the paddle's start edge along the paddle divided by the paddle's length,
\* lies in [0,1] (0..1000 thousandths), for full-size paddles and for the
\* halved paddles of the reserve team.
C33_HitPosInUnitInterval ==
  [][ last'.op \in {"update", "classic.update"}
        => \A i \in caughtContacts(last') :
             /\ last'.contacts[i].hitPos >= 0
             /\ last'.contacts[i].hitPos <= 1000 ]_vars

\* what holds instead: the ball's centre may be up to a radius off either
\* end of the paddle
HitPosWithinRadius ==
  [][ last'.op \in {"update", "classic.update"}
        => \A i \in caughtContacts(last') :
             LET c == last'.contacts[i]
                 length == IF c.name \in {"left", "right"} THEN c.paddle.height
                                                           ELSE c.paddle.width
             IN  /\ c.hitPos * length >= - 1000 * c.before.radius
                 /\ c.hitPos * length <= 1000 * (length + c.before.radius) ]_vars

-----------------------------------------------------------------------------
(* Properties of the paddles under the keys *)

\* C34: in each running update step of the four-paddle variant each
\* paddle's velocity is axisValue * paddle.speed of the current inputState
\* (vertical axis for left and right, horizontal for top and bottom),
\* whatever its velocity was before; with an axis value of 0 or a missing
\* axis field the paddles of that axis do not move in that step.
C34_VelocityFromInputAlone ==
  [][ (last'.op = "update" /\ gameConfig.isRunning /\ ~ gameOver)
        => LET vertical == axisValue(last'.inputState, "vertical")
               horizontal == axisValue(last'.inputState, "horizontal")
           IN  /\ paddles'.left.velocityY = vertical * paddles.left.speed
               /\ paddles'.right.velocityY = vertical * paddles.right.speed
               /\ paddles'.top.velocityX = horizontal * paddles.top.speed
               /\ paddles'.bottom.velocityX = horizontal * paddles.bottom.speed
               /\ vertical = 0 => /\ paddles'.left.y = paddles.left.y
                                  /\ paddles'.right.y = paddles.right.y
               /\ horizontal = 0 => /\ paddles'.top.x = paddles.top.x
                                    /\ paddles'.bottom.x = paddles.bottom.x ]_vars

\* the paddles of the reserve team were moving down and right; an update
\* whose inputState has no vertical field and horizontal = -1 stops the
\* side paddles where they are and sends the others left
C34_Witness ==
  /\ last.op = "update" /\ last.steps = 3
  /\ last.inputState = [horizontal |-> -1]
  /\ reserveTeamUsed
  /\ paddles.left.velocityY = 0 /\ paddles.left.y = 302
  /\ paddles.top.velocityX = -520 /\ paddles.top.x = 350


\* C35: the paddle pairs move in lockstep: in every state reached by
\* update (any inputs), start, pause, reset and activateReserveTeam,
\* paddles.left.y = paddles.right.y and paddles.top.x = paddles.bottom.x.
C35_PairsInLockstep ==
  /\ paddles.left.y = paddles.right.y
  /\ paddles.top.x = paddles.bottom.x

\* the halved paddles of the reserve team, pushed against the lower and
\* the right boundary
C35_Witness ==
  /\ reserveTeamUsed
  /\ last.op = "update"
  /\ paddles.left.height = 50 /\ paddles.left.y = 550 /\ paddles.right.y = 550
  /\ paddles.top.width = 50 /\ paddles.top.x = 750 /\ paddles.bottom.x = 750


\* the ball lies strictly inside the field
strictlyInside ==
  /\ ball.radius < ball.x /\ ball.x < gameConfig.width - ball.radius
  /\ ball.radius < ball.y /\ ball.y < gameConfig.height - ball.radius

\* C36: after every update call of the four-paddle variant the ball lies
\* strictly inside the field: radius < x < width - radius and
\* radius < y < height - radius, a ball that reached a boundary having been
\* respawned at the centre within that call.
C36_BallStrictlyInside ==
  [][ last'.op = "update" => strictlyInside' ]_vars

\* the ball reached a wall in the step and is back at the centre
C36_Witness ==
  /\ last.op = "update" /\ last.wall
  /\ ball.x = 400 /\ ball.y = 300
  /\ lives = 2

-----------------------------------------------------------------------------
(* Properties of the InputHandler *)

\* C37: after any sequence of keydown and keyup events getInputState()
\* returns vertical and horizontal in {-1, 0, 1} each; an axis is 0 exactly
\* when none of its keys (arrow or WASD) is held, and when both directions
\* of an axis are held the result is -1 (up and left take priority).
C37_InputStateOfHeldKeys ==
  LET state == getInputState(inputHandler)
      ups == last.held \cap {"ArrowUp", "KeyW"}
      downs == last.held \cap {"ArrowDown", "KeyS"}
      lefts == last.held \cap {"ArrowLeft", "KeyA"}
      rights == last.held \cap {"ArrowRight", "KeyD"}
  IN  /\ state.vertical \in {-1, 0, 1}
      /\ state.horizontal \in {-1, 0, 1}
      /\ state.vertical = 0 <=> (ups \cup downs = {})
      /\ state.horizontal = 0 <=> (lefts \cup rights = {})
      /\ (ups # {} /\ downs # {}) => state.vertical = -1
      /\ (lefts # {} /\ rights # {}) => state.horizontal = -1

\* W and the down arrow are held, and so are the right arrow and A: the
\* input state is up and left
C37_Witness ==
  /\ last.op = "keydown"
  /\ last.held = {"KeyW", "ArrowDown", "ArrowRight", "KeyA"}
  /\ getInputState(inputHandler) = [vertical |-> -1, horizontal |-> -1]

\* C38: the match is stepped by a single loop: at most one gameLoop
\* callback is pending in requestAnimationFrame at any time, under any
\* interleaving of start, pause, resume, visibility changes, key events and
\* frames, so that GameState.update is invoked at most once per animation
\* frame.
C38_SingleLoop ==
  /\ game.pending <= 1
  /\ Len(last.passed) <= 1

\* C39: under any interleaving of Enter and space-bar key events,
\* visibility changes, Game.reset and animation frames, Game.isRunning
\* implies that the match is running (gameConfig.isRunning) unless the
\* match is over or a reserve offer is pending; hence an Enter keydown on a
\* match that has not been started, or has just been reset, starts it.
C39_LoopRunsTheMatch ==
  /\ game.isRunning => (gameConfig.isRunning \/ gameOver \/ showReserveTeamOption)
  /\ (last.op = "Enter" /\ ~ gameOver /\ ~ showReserveTeamOption /\ lives > 0)
       => gameConfig.isRunning

\* a paddle has caught a ball of this match: only a catch raises the score
caughtOnce == score > 0

\* C40: a running four-paddle match whose paddles never catch the ball
\* ends under update calls that keep coming with a deltaTime of at most
\* 1/30 s: each ball is lost at a wall (the lives go down), so the reserve
\* team is offered, and after the offer is accepted or declined the match
\* reaches gameOver.
C40_UncaughtMatchEnds ==
  /\ \A n \in 1..3 :
       (gameConfig.isRunning /\ ~ gameOver /\ lives = n)
         ~> (lives < n \/ caughtOnce)
  /\ (gameConfig.isRunning /\ ~ gameOver /\ ~ reserveTeamUsed)
       ~> (showReserveTeamOption \/ caughtOnce)
  /\ (last.op \in {"activateReserveTeam", "declineReserveTeam"})
       ~> (gameOver \/ caughtOnce)

\* the reserve team was accepted and its only life was lost at a wall
C40_Witness ==
  /\ last.op = "update"
  /\ last.wall
  /\ reserveTeamUsed
  /\ gameOver
  /\ ~ gameConfig.isRunning
  /\ ~ caughtOnce

=============================================================================
